---- MODULE Spec2Model ----
(***************************************************************************)
(* OmniRambles backend: the note / version / tag store of                  *)
(* backend/src/notes.ts over the schema of backend/src/db.ts, the session  *)
(* gate of middleware/auth.ts and the credential store of auth.ts (the     *)
(* second half of backend/src/types.ts).                                   *)
(*                                                                         *)
(* Tables are sets of rows.  Every request handler runs as a process; a    *)
(* handler that opens a transaction (BEGIN ... COMMIT) executes one SQL    *)
(* statement per step, under PostgreSQL READ COMMITTED: its writes sit in  *)
(* the process's buffer tx[p] until COMMIT applies them, a ROLLBACK drops  *)
(* them, reads see the committed tables, and a statement that needs a row  *)
(* lock another open transaction holds waits (its action is disabled).     *)
(* A handler made of one autocommit statement is one step.                 *)
(*                                                                         *)
(* Row identities: a tag row's serial id is identified with its (unique)   *)
(* name, a version row's serial id with its (unique) pair                  *)
(* (note_id, version).  notes.ts stores no owner: the field created_by of  *)
(* a note or tag row is a history field that records the user of the       *)
(* session whose request inserted the row (index.ts hands req.user.id to   *)
(* every operation); no statement of notes.ts reads it.                    *)
(***************************************************************************)
EXTENDS Integers, Sequences, FiniteSets, TLC

\* ------------------------------------------------------------------ bounds
MaxNotes == 1
MaxVersion == 2
MaxUserIds == 2
MaxAttempts == 6
MaxTicks == 3
MaxTokens == 2
MaxNotesSolo == 2
MaxSessions == 2
MaxHalfDays == 3
MaxHours == 1

Procs == {1, 2}
\* two clients that send their requests while no other request is under way:
\* a browser of user 1, and a browser both users log in with in turn
Solo == 3
Duo == 4
Clients == Procs \cup {Solo, Duo}
Users == {1, 2}
NoUser == 0
Undefined == "undefined"
\* request bodies as the client sends them (before validation trims them)
Contents == {"a", " b", ""}
TagNames == {"Work", "work"}
TagLists == {<<>>, <<"Work">>}
\* a client on its own works on more notes, Solo also on more tag names
NoteIds(p) == IF p \in {Solo, Duo} THEN 1..MaxNotesSolo ELSE 1..MaxNotes
ContentsOf(p) == IF p \in {Solo, Duo} THEN {"a", ""} ELSE Contents
TagNamesOf(p) == IF p = Solo THEN TagNames \cup {"home"} ELSE TagNames
\* the data of registerUser and authenticateUser calls
Emails == {"a@x.io", "A@x.io"}
Usernames == {"ann", "an"}
Passwords == {"passw0rd", "s3cretpw"}

\* auth.ts constants (their defaults)
MAX_LOGIN_ATTEMPTS == 5
LOCKOUT_DURATION == 900000
PASSWORD_RESET_TOKEN_EXPIRY == 3600000
\* index.ts: cookie.maxAge (its default)
SESSION_TIMEOUT == 86400000

\* the clock advances in steps of half a lockout
TickStep == LOCKOUT_DURATION \div 2

\* ----------------------------------------------------------------- strings
\* String.prototype.trim / express-validator .trim() on the bodies above
trim(s) ==
  CASE s = " b" -> "b"
    [] OTHER -> s

\* String.prototype.toLowerCase on the tag names and emails above
toLowerCase(s) ==
  CASE s = "Work" -> "work"
    [] s = "A@x.io" -> "a@x.io"
    [] OTHER -> s

VARIABLES
  notes,              \* table notes: rows [id, content, created_by, created_at]
  notes_id_seq,       \* the SERIAL sequence of notes.id: last value handed out
  note_versions,      \* table note_versions: rows [note_id, version, content]
  tags,               \* table tags: rows [name, created_by]
  note_tags,          \* table note_tags: rows [note_id, tag]
  note_version_tags,  \* table note_version_tags: rows [note_id, version, tag]
  pc,                 \* per process: the statement the handler executes next
  req,                \* per process: the request being handled
  tx,                 \* per process: the open transaction's locals and buffer
  resp,               \* the response the step just taken has sent, if any
  users,              \* table users: rows [id, email, username, password_hash,
                      \*   is_active, failed_login_attempts, locked_until]
  users_id_seq,       \* the SERIAL sequence of users.id
  now,                \* the clock (Date.now(), CURRENT_TIMESTAMP), in ms
  auth_pc,            \* per process: the statement of auth.ts it executes next
  auth_req,           \* per process: the call of auth.ts being executed
  auth_resp,          \* the outcome of the auth.ts call that has just ended, if any
  failed_calls,       \* history, per user id: the authenticateUser calls that have
                      \*   failed in a row with an authentication error
  password_reset_tokens,         \* table password_reset_tokens: rows
                                 \*   [id, user_id, expires_at, used_at]
  password_reset_tokens_id_seq,  \* the SERIAL sequence of password_reset_tokens.id
  pg_session,         \* table session: rows [sid, userId, expire, created]; created
                      \*   is a history field, the time the session was created
  session_id_seq      \* the session ids generated so far (sid is a fresh uid)

store == <<notes, notes_id_seq, note_versions, tags, note_tags, note_version_tags>>
reset_vars == <<password_reset_tokens, password_reset_tokens_id_seq>>
session_vars == <<pg_session, session_id_seq>>
auth_vars == <<users, users_id_seq, now, auth_pc, auth_req, auth_resp, failed_calls,
               password_reset_tokens, password_reset_tokens_id_seq, pg_session, session_id_seq>>
notes_vars == <<notes, notes_id_seq, note_versions, tags, note_tags, note_version_tags,
                pc, req, tx, resp>>
vars == <<notes, notes_id_seq, note_versions, tags, note_tags, note_version_tags,
          pc, req, tx, resp,
          users, users_id_seq, now, auth_pc, auth_req, auth_resp, failed_calls,
          password_reset_tokens, password_reset_tokens_id_seq, pg_session, session_id_seq>>

\* ------------------------------------------------------------ the session
\* A session as the cookie resolves it: register and login set userId and
\* user together (index.ts 94-95, 112-113); a request without a valid cookie
\* has neither.
Sessions ==
  {[userId |-> NoUser, user |-> NoUser]} \cup {[userId |-> u, user |-> u] : u \in Users}

\* the sessions a client process sends requests with: process 1 and Solo are
\* browsers of user 1, process 2 and Duo browsers either user may be logged in
\* with; all also send requests without a session
SessionsOf(p) == {s \in Sessions : s.userId <= (IF p = Solo THEN 1 ELSE p)}

\* loadUser: req.user is the session's user, when there is one
loadUser(session) == IF session.user # NoUser THEN session.user ELSE NoUser

\* a gate that lets every request through
requireAuth_open(session) == TRUE

\* requireAuth: next() is called only with a session userId and a req.user
requireAuth(session) ==
  /\ ~(session.userId = NoUser)
  /\ ~(loadUser(session) = NoUser)

\* ------------------------------------------------------------- the tables
Max(S) == CHOOSE x \in S : \A y \in S : y <= x

NoteRows(id) == {n \in notes : n.id = id}
VersionsOf(id) == {v \in note_versions : v.note_id = id}
LinksOf(id) == {l \in note_tags : l.note_id = id}
VersionNumbers(id) == {v.version : v \in VersionsOf(id)}

\* SELECT COALESCE(MAX(version), 0) FROM note_versions WHERE note_id = id
max_version(id) == IF VersionNumbers(id) = {} THEN 0 ELSE Max(VersionNumbers(id))

\* the SELECT of getNoteById: the note with current_version and its live tags;
\* the empty set is the null result
getNoteById(id) ==
  {[id |-> n.id, content |-> n.content, created_by |-> n.created_by,
    current_version |-> IF VersionNumbers(id) = {} THEN 1 ELSE Max(VersionNumbers(id)),
    tags |-> {l.tag : l \in {k \in LinksOf(id) : \E t \in tags : t.name = k.tag}}]
   : n \in NoteRows(id)}

\* ------------------------------------------------------- the transactions
EmptyTx ==
  [newVersion |-> 0,   \* updateNote's newVersion
   i |-> 0,            \* updateNote's position in data.tags
   insNotes |-> {},    \* rows inserted into notes
   updNotes |-> {},    \* [id, content]: rows of notes updated (row lock held)
   insVers |-> {},     \* rows inserted into note_versions
   insVTags |-> {},    \* rows inserted into note_version_tags
   insTags |-> {},     \* rows inserted into tags
   lockTags |-> {},    \* names of the tag rows inserted or updated (row lock held)
   delLinks |-> {},    \* rows deleted from note_tags (row lock held)
   insLinks |-> {},    \* rows inserted into note_tags
   liveAtCall |-> {},  \* history: the note's live tags when the call began
   committed |-> FALSE]  \* history: the call's COMMIT has changed a table

NoReq == [op |-> "none", user |-> NoUser, id |-> 0, content |-> Undefined,
          tagsGiven |-> FALSE, tags |-> <<>>]

Others(p) == Procs \ {p}

\* rows of notes another open transaction has updated (FOR NO KEY UPDATE)
NoteRowLocked(p, id) == \E q \in Others(p) : \E u \in tx[q].updNotes : u.id = id

\* rows of notes an open transaction's inserted rows refer to (FOR KEY SHARE)
NoteKeyShared(p, id) ==
  \E q \in Others(p) :
    \/ \E v \in tx[q].insVers : v.note_id = id
    \/ \E l \in tx[q].insLinks : l.note_id = id

TagRowLocked(p, name) == \E q \in Others(p) : name \in tx[q].lockTags

LinkRowLocked(p, link) == \E q \in Others(p) : link \in tx[q].delLinks

\* a COMMIT that keeps, of a note it adds a version to, the new version only
Commit_latestOnly(p) ==
  /\ notes' = {IF \E u \in tx[p].updNotes : u.id = n.id
                 THEN [n EXCEPT !.content =
                         (CHOOSE u \in tx[p].updNotes : u.id = n.id).content]
                 ELSE n : n \in notes} \cup tx[p].insNotes
  /\ note_versions' =
       {v \in note_versions : \A w \in tx[p].insVers : w.note_id # v.note_id}
         \cup tx[p].insVers
  /\ note_version_tags' = note_version_tags \cup tx[p].insVTags
  /\ tags' = tags \cup tx[p].insTags
  /\ note_tags' = (note_tags \ tx[p].delLinks) \cup tx[p].insLinks

\* COMMIT: the buffered writes become visible together
Commit(p) ==
  /\ notes' = {IF \E u \in tx[p].updNotes : u.id = n.id
                 THEN [n EXCEPT !.content =
                         (CHOOSE u \in tx[p].updNotes : u.id = n.id).content]
                 ELSE n : n \in notes} \cup tx[p].insNotes
  /\ note_versions' = note_versions \cup tx[p].insVers
  /\ note_version_tags' = note_version_tags \cup tx[p].insVTags
  /\ tags' = tags \cup tx[p].insTags
  /\ note_tags' = (note_tags \ tx[p].delLinks) \cup tx[p].insLinks

Tables == <<notes, note_versions, tags, note_tags, note_version_tags>>

\* error is what the route's catch block logs (console.error)
\* a request that names no filters
NoFilters == [tags |-> {}, limit |-> 0, offset |-> 0]

NoResp == [op |-> "none", user |-> NoUser, id |-> 0, status |-> 0, body |-> {},
           rows |-> <<>>, filter |-> NoFilters, error |-> ""]

\* a step that sends no response
Quiet == resp' = NoResp

Respond(p, status, body) ==
  resp' = [op |-> req[p].op, user |-> req[p].user, id |-> req[p].id,
           status |-> status, body |-> body, rows |-> <<>>,
           filter |-> NoFilters, error |-> ""]

\* ROLLBACK in the catch block, then the route's 500
RollbackOn(p, error) ==
  /\ pc' = [pc EXCEPT ![p] = "idle"]
  /\ tx' = [tx EXCEPT ![p] = EmptyTx]
  /\ req' = [req EXCEPT ![p] = NoReq]
  /\ resp' = [NoResp EXCEPT !.op = req[p].op, !.user = req[p].user, !.id = req[p].id,
                            !.status = 500, !.error = error]
  /\ UNCHANGED store
  /\ UNCHANGED auth_vars

\* a statement violates a constraint of the schema
Rollback(p) == RollbackOn(p, "violates constraint")

\* an error as auth.ts throws it: the message, and for the lockout message the
\* minutes it reports
Err(message) == [message |-> message, minutes |-> 0]
NoError == Err("")

\* overlapped is a history field: a login of the account has succeeded while
\* the call was under way
NoAuthReq == [op |-> "none", email |-> "", username |-> "", password |-> "", user |-> NoUser,
              overlapped |-> FALSE, token |-> 0]
NoAuthResp == [op |-> "none", email |-> "", password |-> "", error |-> NoError, user |-> NoUser]

Init ==
  /\ notes = {}
  /\ notes_id_seq = 0
  /\ note_versions = {}
  /\ tags = {}
  /\ note_tags = {}
  /\ note_version_tags = {}
  /\ pc = [p \in Clients |-> "idle"]
  /\ req = [p \in Clients |-> NoReq]
  /\ tx = [p \in Clients |-> EmptyTx]
  /\ resp = NoResp
  /\ users = {}
  /\ users_id_seq = 0
  /\ now = 0
  /\ auth_pc = [p \in Procs |-> "idle"]
  /\ auth_req = [p \in Procs |-> NoAuthReq]
  /\ auth_resp = NoAuthResp
  /\ failed_calls = [id \in 1..MaxUserIds |-> 0]
  /\ password_reset_tokens = {}
  /\ password_reset_tokens_id_seq = 0
  /\ pg_session = {}
  /\ session_id_seq = 0

\* ------------------------------------------------------- the middleware
\* a route guarded by requireAuth answers 401 'Authentication required' and
\* does not call its handler
requireAuth_rejects(p) ==
  /\ pc[p] = "idle"
  /\ \E s \in SessionsOf(p) :
       /\ ~requireAuth(s)
       /\ resp' = [NoResp EXCEPT !.op = "requireAuth", !.user = loadUser(s), !.status = 401]
  /\ UNCHANGED <<store, pc, req, tx>>
  /\ UNCHANGED auth_vars

\* validateNoteCreation / validateNoteUpdate: content, trimmed, must have 1 to
\* 50000 characters; handleValidationErrors answers 400
handleValidationErrors(p) ==
  /\ pc[p] = "idle"
  /\ \E s \in SessionsOf(p), c \in ContentsOf(p) :
       /\ requireAuth(s)
       /\ trim(c) = ""
       /\ resp' = [NoResp EXCEPT !.op = "validation", !.user = loadUser(s), !.status = 400]
  /\ UNCHANGED <<store, pc, req, tx>>
  /\ UNCHANGED auth_vars

\* createNote without BEGIN: the note row is committed by its own statement
createNote_insertNote_autocommit(p) ==
  /\ pc[p] = "idle"
  /\ notes_id_seq + 1 \in NoteIds(p)
  /\ \E s \in SessionsOf(p), c \in ContentsOf(p) :
       /\ requireAuth(s)
       /\ trim(c) # ""
       /\ req' = [req EXCEPT ![p] = [NoReq EXCEPT !.op = "createNote",
                    !.user = loadUser(s), !.id = notes_id_seq + 1, !.content = trim(c)]]
       /\ notes' = notes \cup {[id |-> notes_id_seq + 1, content |-> trim(c),
                                created_by |-> loadUser(s), created_at |-> now]}
  /\ notes_id_seq' = notes_id_seq + 1
  /\ pc' = [pc EXCEPT ![p] = "cn_insertVersion"]
  /\ Quiet
  /\ UNCHANGED <<note_versions, tags, note_tags, note_version_tags, tx>>
  /\ UNCHANGED auth_vars

\* ------------------------------------------------------------- createNote
\* POST /api/notes: requireAuth, validateNoteCreation, then
\* createNote: BEGIN; INSERT INTO notes (content) VALUES ($1) RETURNING *
createNote_insertNote(p) ==
  /\ pc[p] = "idle"
  /\ notes_id_seq + 1 \in NoteIds(p)
  /\ \E s \in SessionsOf(p), c \in ContentsOf(p) :
       /\ requireAuth(s)
       /\ trim(c) # ""
       /\ req' = [req EXCEPT ![p] = [NoReq EXCEPT !.op = "createNote",
                    !.user = loadUser(s), !.id = notes_id_seq + 1, !.content = trim(c)]]
       /\ tx' = [tx EXCEPT ![p] = [EmptyTx EXCEPT !.insNotes =
                    {[id |-> notes_id_seq + 1, content |-> trim(c),
                      created_by |-> loadUser(s), created_at |-> now]}]]
  /\ notes_id_seq' = notes_id_seq + 1
  /\ pc' = [pc EXCEPT ![p] = "cn_insertVersion"]
  /\ Quiet
  /\ UNCHANGED Tables
  /\ UNCHANGED auth_vars

\* INSERT INTO note_versions (note_id, version, content) VALUES (note.id, 1, content);
\* COMMIT; return {...note, current_version: 1, tags: []}
createNote_insertVersion(p) ==
  /\ pc[p] = "cn_insertVersion"
  /\ tx[p].insVers = {}
  /\ tx' = [tx EXCEPT ![p].insVers =
              {[note_id |-> req[p].id, version |-> 1, content |-> req[p].content]}]
  /\ Quiet
  /\ UNCHANGED <<store, pc, req>>
  /\ UNCHANGED auth_vars

createNote_commit(p) ==
  /\ pc[p] = "cn_insertVersion"
  /\ tx[p].insVers # {}
  /\ Commit(p)
  /\ Respond(p, 201, {[id |-> n.id, content |-> n.content, created_by |-> n.created_by,
                        current_version |-> 1, tags |-> {}] : n \in tx[p].insNotes})
  /\ pc' = [pc EXCEPT ![p] = "idle"]
  /\ tx' = [tx EXCEPT ![p] = EmptyTx]
  /\ req' = [req EXCEPT ![p] = NoReq]
  /\ UNCHANGED notes_id_seq
  /\ UNCHANGED auth_vars

\* a DELETE whose cascade stops at the versions: their tag links stay
deleteNote_keepsVersionTags(p) ==
  /\ pc[p] = "idle"
  /\ \E s \in SessionsOf(p), id \in NoteIds(p) :
       /\ requireAuth(s)
       /\ notes' = notes \ NoteRows(id)
       /\ note_tags' = note_tags \ LinksOf(id)
       /\ note_versions' = note_versions \ VersionsOf(id)
       /\ resp' = [NoResp EXCEPT !.op = "deleteNote", !.user = loadUser(s), !.id = id,
                     !.status = IF NoteRows(id) # {} THEN 204 ELSE 404]
  /\ UNCHANGED <<notes_id_seq, tags, note_version_tags, pc, req, tx>>
  /\ UNCHANGED auth_vars

\* ------------------------------------------------------------- deleteNote
\* DELETE /api/notes/:id: one autocommit DELETE; ON DELETE CASCADE removes the
\* note's note_tags and note_versions rows and, through the versions, their
\* note_version_tags rows.  It waits for row locks of open transactions.
deleteNote(p) ==
  /\ pc[p] = "idle"
  /\ \E s \in SessionsOf(p), id \in NoteIds(p) :
       /\ requireAuth(s)
       /\ NoteRows(id) # {} =>
            /\ ~NoteRowLocked(p, id)
            /\ ~NoteKeyShared(p, id)
            /\ \A l \in LinksOf(id) : ~LinkRowLocked(p, l)
       /\ notes' = notes \ NoteRows(id)
       /\ note_tags' = note_tags \ LinksOf(id)
       /\ note_versions' = note_versions \ VersionsOf(id)
       /\ note_version_tags' = {vt \in note_version_tags : vt.note_id # id}
       /\ resp' = [NoResp EXCEPT !.op = "deleteNote", !.user = loadUser(s), !.id = id,
                     !.status = IF NoteRows(id) # {} THEN 204 ELSE 404]
  /\ UNCHANGED <<notes_id_seq, tags, pc, req, tx>>
  /\ UNCHANGED auth_vars

\* ------------------------------------------------------------- updateNote
\* PUT /api/notes/:id: requireAuth, validateNoteUpdate, then updateNote(id, data):
\* BEGIN and, with data.content, SELECT COALESCE(MAX(version), 0) ...;
\* newVersion = max_version + 1
updateNote_begin(p) ==
  /\ pc[p] = "idle"
  /\ \E s \in SessionsOf(p), id \in NoteIds(p), c \in ContentsOf(p) \cup {Undefined},
        given \in BOOLEAN, tl \in TagLists :
       /\ requireAuth(s)
       /\ c # Undefined => trim(c) # ""
       /\ c # Undefined => max_version(id) < MaxVersion
       /\ ~given => tl = <<>>
       /\ req' = [req EXCEPT ![p] = [op |-> "updateNote", user |-> loadUser(s), id |-> id,
                    content |-> IF c = Undefined THEN Undefined ELSE trim(c),
                    tagsGiven |-> given, tags |-> tl]]
       /\ tx' = [tx EXCEPT ![p] = [EmptyTx EXCEPT
                    !.newVersion = IF c = Undefined THEN 0 ELSE max_version(id) + 1,
                    !.i = 1,
                    !.liveAtCall = {l.tag : l \in LinksOf(id)}]]
       /\ pc' = [pc EXCEPT ![p] =
                   IF c # Undefined THEN "un_updateNote"
                   ELSE IF given THEN "un_deleteLinks" ELSE "un_commit"]
  /\ Quiet
  /\ UNCHANGED store
  /\ UNCHANGED auth_vars

\* an updateNote that writes the version and leaves notes.content as it is
updateNote_updateNote_skipped(p) ==
  /\ pc[p] = "un_updateNote"
  /\ ~NoteRowLocked(p, req[p].id)
  /\ pc' = [pc EXCEPT ![p] = "un_insertVersion"]
  /\ Quiet
  /\ UNCHANGED <<store, req, tx>>
  /\ UNCHANGED auth_vars

\* UPDATE notes SET content = $1 WHERE id = $2: waits for the row's lock; no row,
\* no update
updateNote_updateNote(p) ==
  /\ pc[p] = "un_updateNote"
  /\ ~NoteRowLocked(p, req[p].id)
  /\ tx' = [tx EXCEPT ![p].updNotes =
              {[id |-> n.id, content |-> req[p].content] : n \in NoteRows(req[p].id)}]
  /\ pc' = [pc EXCEPT ![p] = "un_insertVersion"]
  /\ Quiet
  /\ UNCHANGED <<store, req>>
  /\ UNCHANGED auth_vars

NewVersionRow(p) ==
  [note_id |-> req[p].id, version |-> tx[p].newVersion, content |-> req[p].content]

\* UNIQUE (note_id, version): an uncommitted row with the same key makes the
\* INSERT wait
VersionKeyPending(p, id, version) ==
  \E q \in Others(p) : \E v \in tx[q].insVers : v.note_id = id /\ v.version = version

\* a note_versions table without the UNIQUE (note_id, version) constraint
VersionKeyTaken_none(id, version) == FALSE

\* UNIQUE (note_id, version) against the committed rows
VersionKeyTaken(id, version) ==
  \E v \in note_versions : v.note_id = id /\ v.version = version

\* a copy that takes the tags of the request instead of the note's current ones
CopyTags_fromRequest(p) ==
  {[note_id |-> req[p].id, version |-> tx[p].newVersion,
    tag |-> toLowerCase(req[p].tags[k])] : k \in DOMAIN req[p].tags}

\* INSERT INTO note_version_tags SELECT version.id, tag_id FROM note_tags WHERE note_id = id
CopyTags(p) ==
  {[note_id |-> req[p].id, version |-> tx[p].newVersion, tag |-> l.tag]
   : l \in LinksOf(req[p].id)}

\* an updateNote that goes on to replace the tags whether or not data.tags is
\* given
updateNote_insertVersion_thenTags(p) ==
  /\ pc[p] = "un_insertVersion"
  /\ ~VersionKeyPending(p, req[p].id, tx[p].newVersion)
  /\ ~VersionKeyTaken(req[p].id, tx[p].newVersion)
  /\ NoteRows(req[p].id) # {}
  /\ tx' = [tx EXCEPT ![p].insVers = {NewVersionRow(p)}, ![p].insVTags = CopyTags(p)]
  /\ pc' = [pc EXCEPT ![p] = "un_deleteLinks"]
  /\ Quiet
  /\ UNCHANGED <<store, req>>
  /\ UNCHANGED auth_vars

\* INSERT INTO note_versions (note_id, version, content) VALUES (id, newVersion, content),
\* then the copy of the note's current tags to the new version
updateNote_insertVersion(p) ==
  /\ pc[p] = "un_insertVersion"
  /\ ~VersionKeyPending(p, req[p].id, tx[p].newVersion)
  /\ ~VersionKeyTaken(req[p].id, tx[p].newVersion)
  /\ NoteRows(req[p].id) # {}
  /\ tx' = [tx EXCEPT ![p].insVers = {NewVersionRow(p)}, ![p].insVTags = CopyTags(p)]
  /\ pc' = [pc EXCEPT ![p] = IF req[p].tagsGiven THEN "un_deleteLinks" ELSE "un_commit"]
  /\ Quiet
  /\ UNCHANGED <<store, req>>
  /\ UNCHANGED auth_vars

\* the same INSERT violating UNIQUE (note_id, version) or the foreign key
\* note_id REFERENCES notes(id): it throws, the catch block rolls back
updateNote_insertVersion_throws(p) ==
  /\ pc[p] = "un_insertVersion"
  /\ ~VersionKeyPending(p, req[p].id, tx[p].newVersion)
  /\ \/ VersionKeyTaken(req[p].id, tx[p].newVersion)
     \/ NoteRows(req[p].id) = {}
  /\ Rollback(p)

\* DELETE FROM note_tags WHERE note_id = id: waits for the rows' locks
updateNote_deleteLinks(p) ==
  /\ pc[p] = "un_deleteLinks"
  /\ \A l \in LinksOf(req[p].id) : ~LinkRowLocked(p, l)
  /\ tx' = [tx EXCEPT ![p].delLinks = LinksOf(req[p].id)]
  /\ pc' = [pc EXCEPT ![p] = IF req[p].tags = <<>> THEN "un_commit" ELSE "un_addTag"]
  /\ Quiet
  /\ UNCHANGED <<store, req>>
  /\ UNCHANGED auth_vars

\* an upsert that stores the name as the request gives it
UpsertTag_asGiven(t, user, name) ==
  [t EXCEPT
     !.lockTags = @ \cup {name},
     !.insTags = IF \E r \in tags \cup @ : r.name = name THEN @
                 ELSE @ \cup {[name |-> name, created_by |-> user]}]

\* INSERT INTO tags (name, source) VALUES (lower(name), source)
\*   ON CONFLICT (name) DO UPDATE SET name = EXCLUDED.name RETURNING *
\* tags.name is UNIQUE (db.ts 81): the statement inserts the row or locks the
\* one there is, and waits while another open transaction holds that name
UpsertTag(t, user, name) ==
  [t EXCEPT
     !.lockTags = @ \cup {toLowerCase(name)},
     !.insTags = IF \E r \in tags \cup @ : r.name = toLowerCase(name) THEN @
                 ELSE @ \cup {[name |-> toLowerCase(name), created_by |-> user]}]

Link(id, name) == [note_id |-> id, tag |-> toLowerCase(name)]

\* the row INSERT INTO note_tags ... ON CONFLICT DO NOTHING conflicts with: a
\* committed row this transaction has not deleted, or a row it has inserted
LinkConflict(t, id, name) ==
  \/ Link(id, name) \in note_tags \ t.delLinks
  \/ Link(id, name) \in t.insLinks

\* INSERT INTO note_tags (note_id, tag_id) VALUES (id, tag.id) ON CONFLICT DO NOTHING
LinkTag(t, id, name) ==
  [t EXCEPT !.insLinks = IF LinkConflict(t, id, name) THEN @ ELSE @ \cup {Link(id, name)}]

\* both statements can run: no other open transaction holds the tag row or has
\* deleted the link row
TagStatementsReady(p, id, name) ==
  /\ ~TagRowLocked(p, toLowerCase(name))
  /\ ~LinkRowLocked(p, Link(id, name))

\* the statements of a tag INSERT without its ON CONFLICT clause: it throws
\* also when a row of that name is there
LinkTagThrows_onTagConflict(t, id, name) ==
  \/ \E r \in tags : r.name = toLowerCase(name)
  \/ /\ ~LinkConflict(t, id, name)
     /\ NoteRows(id) = {}

\* the INSERT INTO note_tags violates the foreign key note_id REFERENCES notes(id)
LinkTagThrows(t, id, name) ==
  /\ ~LinkConflict(t, id, name)
  /\ NoteRows(id) = {}

\* one round of the loop over data.tags: the tag upsert and the link insert
updateNote_addTag(p) ==
  /\ pc[p] = "un_addTag"
  /\ TagStatementsReady(p, req[p].id, req[p].tags[tx[p].i])
  /\ ~LinkTagThrows(tx[p], req[p].id, req[p].tags[tx[p].i])
  /\ tx' = [tx EXCEPT ![p] =
              [LinkTag(UpsertTag(tx[p], req[p].user, req[p].tags[tx[p].i]),
                       req[p].id, req[p].tags[tx[p].i])
                 EXCEPT !.i = tx[p].i + 1]]
  /\ pc' = [pc EXCEPT ![p] =
              IF tx[p].i < Len(req[p].tags) THEN "un_addTag" ELSE "un_commit"]
  /\ Quiet
  /\ UNCHANGED <<store, req>>
  /\ UNCHANGED auth_vars

updateNote_addTag_throws(p) ==
  /\ pc[p] = "un_addTag"
  /\ TagStatementsReady(p, req[p].id, req[p].tags[tx[p].i])
  /\ LinkTagThrows(tx[p], req[p].id, req[p].tags[tx[p].i])
  /\ Rollback(p)

\* COMMIT
CommitThenReturn(p) ==
  /\ Commit(p)
  /\ tx' = [tx EXCEPT ![p] = [EmptyTx EXCEPT !.committed = (Tables' # Tables)]]
  /\ req' = [req EXCEPT ![p] = [NoReq EXCEPT !.op = req[p].op, !.user = req[p].user,
                                             !.id = req[p].id]]
  /\ pc' = [pc EXCEPT ![p] = "return"]
  /\ Quiet
  /\ UNCHANGED notes_id_seq
  /\ UNCHANGED auth_vars

updateNote_commit(p) ==
  /\ pc[p] = "un_commit"
  /\ CommitThenReturn(p)

\* return await getNoteById(id); the route answers 404 for null
ReturnNote(p) ==
  /\ pc[p] = "return"
  /\ Respond(p, IF getNoteById(req[p].id) = {} THEN 404 ELSE 200, getNoteById(req[p].id))
  /\ pc' = [pc EXCEPT ![p] = "idle"]
  /\ req' = [req EXCEPT ![p] = NoReq]
  /\ tx' = [tx EXCEPT ![p] = EmptyTx]
  /\ UNCHANGED store
  /\ UNCHANGED auth_vars

\* the getNoteById after the COMMIT rejects (the pool hands out no connection,
\* the query fails): the catch block sends ROLLBACK to a transaction that has
\* ended, the error is thrown on and the route answers 500
ReturnNote_throws(p) ==
  /\ pc[p] = "return"
  /\ RollbackOn(p, "store failure")

\* ----------------------------------------------------------- addTagToNote
\* POST /api/notes/:id/tags: requireAuth, validateAddTagToNote, then
\* addTagToNote(noteId, tagName, source): BEGIN
addTagToNote_begin(p) ==
  /\ pc[p] = "idle"
  /\ \E s \in SessionsOf(p), id \in NoteIds(p), name \in TagNamesOf(p) :
       /\ requireAuth(s)
       /\ req' = [req EXCEPT ![p] = [NoReq EXCEPT !.op = "addTagToNote",
                    !.user = loadUser(s), !.id = id, !.tags = <<name>>]]
  /\ pc' = [pc EXCEPT ![p] = "at_addTag"]
  /\ Quiet
  /\ UNCHANGED <<store, tx>>
  /\ UNCHANGED auth_vars

\* an addTagToNote that also writes the tag to the note's latest version
addTagToNote_addTag_snapshot(p) ==
  /\ pc[p] = "at_addTag"
  /\ TagStatementsReady(p, req[p].id, req[p].tags[1])
  /\ ~LinkTagThrows(tx[p], req[p].id, req[p].tags[1])
  /\ tx' = [tx EXCEPT ![p] =
              [LinkTag(UpsertTag(tx[p], req[p].user, req[p].tags[1]), req[p].id, req[p].tags[1])
                 EXCEPT !.insVTags = {[note_id |-> req[p].id,
                                       version |-> max_version(req[p].id),
                                       tag |-> toLowerCase(req[p].tags[1])]}]]
  /\ pc' = [pc EXCEPT ![p] = "at_commit"]
  /\ Quiet
  /\ UNCHANGED <<store, req>>
  /\ UNCHANGED auth_vars

\* the tag upsert and the link insert
addTagToNote_addTag(p) ==
  /\ pc[p] = "at_addTag"
  /\ TagStatementsReady(p, req[p].id, req[p].tags[1])
  /\ ~LinkTagThrows(tx[p], req[p].id, req[p].tags[1])
  /\ tx' = [tx EXCEPT ![p] =
              LinkTag(UpsertTag(tx[p], req[p].user, req[p].tags[1]), req[p].id, req[p].tags[1])]
  /\ pc' = [pc EXCEPT ![p] = "at_commit"]
  /\ Quiet
  /\ UNCHANGED <<store, req>>
  /\ UNCHANGED auth_vars

addTagToNote_addTag_throws(p) ==
  /\ pc[p] = "at_addTag"
  /\ TagStatementsReady(p, req[p].id, req[p].tags[1])
  /\ LinkTagThrows(tx[p], req[p].id, req[p].tags[1])
  /\ Rollback(p)

addTagToNote_commit(p) ==
  /\ pc[p] = "at_commit"
  /\ CommitThenReturn(p)

\* ------------------------------------------------------ removeTagFromNote
\* DELETE /api/notes/:id/tags/:tagId: requireAuth, then one autocommit
\* DELETE FROM note_tags WHERE note_id = $1 AND tag_id = $2
removeTagFromNote(p) ==
  /\ pc[p] = "idle"
  /\ \E s \in SessionsOf(p), id \in NoteIds(p), tagId \in {toLowerCase(n) : n \in TagNamesOf(p)} :
       /\ requireAuth(s)
       /\ ~LinkRowLocked(p, Link(id, tagId))
       /\ note_tags' = note_tags \ {Link(id, tagId)}
       /\ req' = [req EXCEPT ![p] = [NoReq EXCEPT !.op = "removeTagFromNote",
                    !.user = loadUser(s), !.id = id]]
  /\ pc' = [pc EXCEPT ![p] = "return"]
  /\ Quiet
  /\ UNCHANGED <<notes, notes_id_seq, note_versions, tags, note_version_tags, tx>>
  /\ UNCHANGED auth_vars

\* ------------------------------------------------------------ getNoteById
\* GET /api/notes/:id: requireAuth, then the SELECT of getNoteById
getNoteById_route(p) ==
  /\ pc[p] = "idle"
  /\ \E s \in SessionsOf(p), id \in NoteIds(p) :
       /\ requireAuth(s)
       /\ resp' = [op |-> "getNoteById", user |-> loadUser(s), id |-> id,
                   status |-> IF getNoteById(id) = {} THEN 404 ELSE 200,
                   body |-> getNoteById(id), rows |-> <<>>,
                   filter |-> NoFilters, error |-> ""]
  /\ UNCHANGED <<store, pc, req, tx>>
  /\ UNCHANGED auth_vars

\* a statement of an open transaction fails in the store (connection loss,
\* deadlock abort): the catch block rolls back and rethrows
StorageFailure(p) ==
  /\ pc[p] \notin {"idle", "return"}
  /\ RollbackOn(p, "store failure")

Next ==
  \E p \in Procs :
    \/ requireAuth_rejects(p)
    \/ handleValidationErrors(p)
    \/ createNote_insertNote(p)
    \/ createNote_insertVersion(p)
    \/ createNote_commit(p)
    \/ deleteNote(p)
    \/ updateNote_begin(p)
    \/ updateNote_updateNote(p)
    \/ updateNote_insertVersion(p)
    \/ updateNote_insertVersion_throws(p)
    \/ updateNote_deleteLinks(p)
    \/ updateNote_addTag(p)
    \/ updateNote_addTag_throws(p)
    \/ updateNote_commit(p)
    \/ addTagToNote_begin(p)
    \/ addTagToNote_addTag(p)
    \/ addTagToNote_addTag_throws(p)
    \/ addTagToNote_commit(p)
    \/ removeTagFromNote(p)
    \/ ReturnNote(p)
    \/ ReturnNote_throws(p)
    \/ getNoteById_route(p)
    \/ StorageFailure(p)

Spec == Init /\ [][Next]_vars

\* ---------------------------------------------------------------- getNotes
\* the tag filters of GET /api/notes?tags=...: req.query.tags.split(',')
TagFilters == {{}, {"work"}, {"home"}, {"work", "home"}, {"Work"}}

\* the limit and offset a request names; 100 and 0 are the defaults of getNotes
Limits == {1, 100}
Offsets == {0, 1}

\* a filter that keeps the notes carrying every named tag
getNotes_rows_every(names) ==
  {r \in UNION {getNoteById(n.id) : n \in notes} :
     \A name \in names :
       \E l \in LinksOf(r.id) : \E t \in tags : t.name = l.tag /\ t.name = name}

\* the rows the SELECT of getNotes groups: the row of getNoteById for every
\* note, one per note (GROUP BY n.id); with tags, WHERE n.id IN (SELECT
\* nt.note_id FROM note_tags nt JOIN tags t ... WHERE t.name = ANY(tags))
getNotes_rows(names) ==
  {r \in UNION {getNoteById(n.id) : n \in notes} :
     names # {} =>
       \E l \in LinksOf(r.id) : \E t \in tags : t.name = l.tag /\ t.name \in names}

\* ORDER BY n.created_at DESC, the default order, and nothing after it: every
\* sequence of the rows in which created_at does not increase is an order the
\* statement may return them in
OrderByCreatedDesc(rows) ==
  LET at(r) == (CHOOSE n \in notes : n.id = r.id).created_at IN
  {o \in [1..Cardinality(rows) -> rows] :
     /\ \A i, j \in DOMAIN o : o[i] = o[j] => i = j
     /\ \A i, j \in DOMAIN o : i < j => at(o[i]) >= at(o[j])}

\* getNotes: the grouped rows in order, LIMIT limit OFFSET offset; the results
\* the statement may give
getNotes(names, limit, offset) ==
  {SubSeq(ordered, offset + 1,
          IF offset + limit < Len(ordered) THEN offset + limit ELSE Len(ordered))
   : ordered \in OrderByCreatedDesc(getNotes_rows(names))}

\* GET /api/notes: requireAuth, validateNoteFilters, then getNotes(filters)
getNotes_route(p) ==
  /\ pc[p] = "idle"
  /\ \E s \in SessionsOf(p), names \in TagFilters, limit \in Limits, offset \in Offsets :
       /\ requireAuth(s)
       /\ \E rows \in getNotes(names, limit, offset) :
            resp' = [op |-> "getNotes", user |-> loadUser(s), id |-> 0, status |-> 200,
                     body |-> {rows[i] : i \in 1..Len(rows)},
                     rows |-> rows,
                     filter |-> [tags |-> names, limit |-> limit, offset |-> offset],
                     error |-> ""]
  /\ UNCHANGED <<store, pc, req, tx>>
  /\ UNCHANGED auth_vars

\* the requests of the client on its own
NextSolo ==
  \E p \in {Solo} :
    \/ requireAuth_rejects(p)
    \/ handleValidationErrors(p)
    \/ createNote_insertNote(p)
    \/ createNote_insertVersion(p)
    \/ createNote_commit(p)
    \/ deleteNote(p)
    \/ updateNote_begin(p)
    \/ updateNote_updateNote(p)
    \/ updateNote_insertVersion(p)
    \/ updateNote_insertVersion_throws(p)
    \/ updateNote_deleteLinks(p)
    \/ updateNote_addTag(p)
    \/ updateNote_addTag_throws(p)
    \/ updateNote_commit(p)
    \/ addTagToNote_begin(p)
    \/ addTagToNote_addTag(p)
    \/ addTagToNote_addTag_throws(p)
    \/ addTagToNote_commit(p)
    \/ removeTagFromNote(p)
    \/ ReturnNote(p)
    \/ ReturnNote_throws(p)
    \/ getNoteById_route(p)
    \/ getNotes_route(p)
    \/ StorageFailure(p)

SpecSolo == Init /\ [][NextSolo]_vars

\* the notes and tags of two users who take turns at one browser
NextDuo ==
  \E p \in {Duo} :
    \/ requireAuth_rejects(p)
    \/ createNote_insertNote(p)
    \/ createNote_insertVersion(p)
    \/ createNote_commit(p)
    \/ deleteNote(p)
    \/ addTagToNote_begin(p)
    \/ addTagToNote_addTag(p)
    \/ addTagToNote_addTag_throws(p)
    \/ addTagToNote_commit(p)
    \/ removeTagFromNote(p)
    \/ ReturnNote(p)
    \/ ReturnNote_throws(p)
    \/ StorageFailure(p)

SpecDuo == Init /\ [][NextDuo]_vars

\* ============================================================ credentials
\* bcrypt.hash: the hash is not the password; bcrypt.compare accepts exactly
\* the password a hash was made from
hashPassword(password) == <<"$2b$", password>>
comparePassword(password, hash) == hash = hashPassword(password)

\* validateEmail, validateUsername, validatePassword on the call data above and
\* on the malformed email "a.x.io", the short name "an", the short password "short"
validateEmail(email) == email # "a.x.io"
validateUsername(username) ==
  IF username = "an" THEN Err("Username must be 3-50 characters long") ELSE NoError
validatePassword(password) ==
  IF password = "short" THEN Err("Password must be at least 8 characters long") ELSE NoError

\* Math.ceil(a / b)
Ceil(a, b) == (a + b - 1) \div b

UsersByEmail(U, email) == {u \in U : u.email = toLowerCase(email)}

AuthQuiet == auth_resp' = NoAuthResp

\* a call ends: it throws error, or returns the user (of a registerUser call
\* the outcome does not record the password)
AuthReturn(op, email, password, error, user) ==
  auth_resp' = [op |-> op, email |-> email, password |-> password, error |-> error,
                user |-> user]

AuthEnd(p, error, user) ==
  /\ AuthReturn(auth_req[p].op, auth_req[p].email,
                IF auth_req[p].op = "registerUser" THEN "" ELSE auth_req[p].password,
                error, user)
  /\ auth_pc' = [auth_pc EXCEPT ![p] = "idle"]
  /\ auth_req' = [auth_req EXCEPT ![p] = NoAuthReq]

\* the clock
Tick ==
  /\ now + TickStep <= MaxTicks * TickStep
  /\ now' = now + TickStep
  /\ AuthQuiet
  /\ UNCHANGED <<users, users_id_seq, auth_pc, auth_req, failed_calls>>
  /\ UNCHANGED reset_vars
  /\ UNCHANGED session_vars
  /\ UNCHANGED notes_vars

\* ----------------------------------------------------------- registerUser
\* the checks of registerUser before its INSERT: the three validations, then
\* SELECT id FROM users WHERE email = lower(email), then ... WHERE username = username
registerUser_error(U, email, username, password) ==
  IF ~validateEmail(email) THEN Err("Invalid email format")
  ELSE IF validateUsername(username) # NoError THEN validateUsername(username)
  ELSE IF validatePassword(password) # NoError THEN validatePassword(password)
  ELSE IF UsersByEmail(U, email) # {} THEN Err("Email already registered")
  ELSE IF \E u \in U : u.username = username THEN Err("Username already taken")
  ELSE NoError

registerUser_check(p) ==
  /\ auth_pc[p] = "idle"
  /\ users_id_seq + Cardinality({q \in Others(p) : auth_pc[q] = "ru_insert"}) < MaxUserIds
  /\ \E email \in Emails \cup {"a.x.io"}, username \in Usernames,
        password \in Passwords \cup {"short"} :
       IF registerUser_error(users, email, username, password) # NoError
         THEN /\ AuthReturn("registerUser", email, "",
                            registerUser_error(users, email, username, password), NoUser)
              /\ UNCHANGED <<auth_pc, auth_req>>
         ELSE /\ auth_req' = [auth_req EXCEPT ![p] =
                               [op |-> "registerUser", email |-> email,
                                username |-> username, password |-> password,
                                user |-> NoUser, overlapped |-> FALSE, token |-> 0]]
              /\ auth_pc' = [auth_pc EXCEPT ![p] = "ru_insert"]
              /\ AuthQuiet
  /\ UNCHANGED <<users, users_id_seq, now, failed_calls>>
  /\ UNCHANGED reset_vars
  /\ UNCHANGED session_vars
  /\ UNCHANGED notes_vars

\* users.email and users.username are UNIQUE (migration_add_auth.sql 10-11)
UserKeyTaken(email, username) ==
  \E u \in users : u.email = toLowerCase(email) \/ u.username = username

\* INSERT INTO users (email, username, password_hash) VALUES (lower(email), ...)
\* RETURNING *; the other columns take their defaults
registerUser_insert(p) ==
  /\ auth_pc[p] = "ru_insert"
  /\ ~UserKeyTaken(auth_req[p].email, auth_req[p].username)
  /\ users' = users \cup
       {[id |-> users_id_seq + 1, email |-> toLowerCase(auth_req[p].email),
         username |-> auth_req[p].username,
         password_hash |-> hashPassword(auth_req[p].password),
         is_active |-> TRUE, failed_login_attempts |-> 0, locked_until |-> {}]}
  /\ users_id_seq' = users_id_seq + 1
  /\ AuthEnd(p, NoError, users_id_seq + 1)
  /\ UNCHANGED <<now, failed_calls>>
  /\ UNCHANGED reset_vars
  /\ UNCHANGED session_vars
  /\ UNCHANGED notes_vars

\* the INSERT violates a unique constraint: it throws (the sequence value is spent)
registerUser_insert_throws(p) ==
  /\ auth_pc[p] = "ru_insert"
  /\ UserKeyTaken(auth_req[p].email, auth_req[p].username)
  /\ users_id_seq' = users_id_seq + 1
  /\ AuthEnd(p, Err("duplicate key value violates unique constraint"), NoUser)
  /\ UNCHANGED <<users, now, failed_calls>>
  /\ UNCHANGED reset_vars
  /\ UNCHANGED session_vars
  /\ UNCHANGED notes_vars

\* ------------------------------------------------------- authenticateUser
\* a call that tells a wrong password from an unknown email
authenticateUser_error_telling(U, email, password, t) ==
  IF UsersByEmail(U, email) = {} THEN Err("Invalid email or password")
  ELSE LET user == CHOOSE u \in UsersByEmail(U, email) : TRUE IN
    IF ~user.is_active THEN Err("Account is disabled")
    ELSE IF \E l \in user.locked_until : l > t
      THEN [message |-> "Account is locked. Try again in %d minutes",
            minutes |-> Ceil((CHOOSE l \in user.locked_until : TRUE) - t, 60000)]
    ELSE IF ~comparePassword(password, user.password_hash)
      THEN Err("Invalid password")
    ELSE NoError

\* the error authenticateUser throws for the row its SELECT returns at time t
\* (NoError: it goes on to log the user in): unknown email, disabled account,
\* locked account with Math.ceil((locked_until - now) / 60000), wrong password
authenticateUser_error(U, email, password, t) ==
  IF UsersByEmail(U, email) = {} THEN Err("Invalid email or password")
  ELSE LET user == CHOOSE u \in UsersByEmail(U, email) : TRUE IN
    IF ~user.is_active THEN Err("Account is disabled")
    ELSE IF \E l \in user.locked_until : l > t
      THEN [message |-> "Account is locked. Try again in %d minutes",
            minutes |-> Ceil((CHOOSE l \in user.locked_until : TRUE) - t, 60000)]
    ELSE IF ~comparePassword(password, user.password_hash)
      THEN Err("Invalid email or password")
    ELSE NoError

\* the account checks of authenticateUser pass and the password does not match
PasswordMismatch(U, email, password, t) ==
  /\ \E u \in UsersByEmail(U, email) :
       /\ u.is_active
       /\ ~\E l \in u.locked_until : l > t
       /\ ~comparePassword(password, u.password_hash)

\* history: one more failed call in a row for the account (counted up to the
\* threshold)
FailedCall(id) ==
  [failed_calls EXCEPT ![id] = IF @ < MAX_LOGIN_ATTEMPTS THEN @ + 1 ELSE @]

\* history: the failed call of process p counts unless a login succeeded
\* while it was under way
FailedCallOf(p) ==
  IF auth_req[p].overlapped THEN failed_calls ELSE FailedCall(auth_req[p].user)

\* SELECT * FROM users WHERE email = lower(email), then the checks up to
\* comparePassword
authenticateUser_select(p) ==
  /\ auth_pc[p] = "idle"
  /\ \E email \in Emails, password \in Passwords :
       LET error == authenticateUser_error(users, email, password, now)
           rows == UsersByEmail(users, email)
       IN
       IF PasswordMismatch(users, email, password, now)
         THEN \E u \in rows :
                /\ u.failed_login_attempts
                     + Cardinality({q \in Others(p) : auth_pc[q] = "au_increment"})
                       < MaxAttempts
                /\ auth_req' = [auth_req EXCEPT ![p] =
                      [NoAuthReq EXCEPT !.op = "authenticateUser", !.email = email,
                                        !.password = password, !.user = u.id]]
                /\ auth_pc' = [auth_pc EXCEPT ![p] = "au_increment"]
                /\ AuthQuiet
                /\ UNCHANGED failed_calls
         ELSE IF error = NoError
         THEN \E u \in rows :
                /\ auth_req' = [auth_req EXCEPT ![p] =
                      [NoAuthReq EXCEPT !.op = "authenticateUser", !.email = email,
                                        !.password = password, !.user = u.id]]
                /\ auth_pc' = [auth_pc EXCEPT ![p] = "au_reset"]
                /\ AuthQuiet
                /\ UNCHANGED failed_calls
         ELSE /\ AuthReturn("authenticateUser", email, password, error, NoUser)
              /\ failed_calls' = IF rows = {} THEN failed_calls
                                 ELSE FailedCall((CHOOSE u \in rows : TRUE).id)
              /\ UNCHANGED <<auth_pc, auth_req>>
  /\ UNCHANGED <<users, users_id_seq, now>>
  /\ UNCHANGED reset_vars
  /\ UNCHANGED session_vars
  /\ UNCHANGED notes_vars

\* a lock that takes one failure more
incrementFailedLoginAttempts_locks_late(attempts) == attempts > MAX_LOGIN_ATTEMPTS

\* a lock set by the failure that reaches the threshold only
incrementFailedLoginAttempts_locks_once(attempts) == attempts = MAX_LOGIN_ATTEMPTS

\* if (attempts >= MAX_LOGIN_ATTEMPTS)
incrementFailedLoginAttempts_locks(attempts) == attempts >= MAX_LOGIN_ATTEMPTS

\* incrementFailedLoginAttempts: UPDATE users SET failed_login_attempts =
\* failed_login_attempts + 1 WHERE id = $1 RETURNING failed_login_attempts;
\* below the threshold the call then throws 'Invalid email or password'
authenticateUser_increment(p) ==
  /\ auth_pc[p] = "au_increment"
  /\ \E u \in users :
       /\ u.id = auth_req[p].user
       /\ users' = (users \ {u}) \cup
                     {[u EXCEPT !.failed_login_attempts = @ + 1]}
       /\ IF incrementFailedLoginAttempts_locks(u.failed_login_attempts + 1)
            THEN /\ auth_pc' = [auth_pc EXCEPT ![p] = "au_lock"]
                 /\ AuthQuiet
                 /\ UNCHANGED <<auth_req, failed_calls>>
            ELSE /\ AuthEnd(p, Err("Invalid email or password"), NoUser)
                 /\ failed_calls' = FailedCallOf(p)
  /\ UNCHANGED <<users_id_seq, now>>
  /\ UNCHANGED reset_vars
  /\ UNCHANGED session_vars
  /\ UNCHANGED notes_vars

\* UPDATE users SET locked_until = Date.now() + LOCKOUT_DURATION WHERE id = $2,
\* then the throw of 'Invalid email or password'
authenticateUser_lock(p) ==
  /\ auth_pc[p] = "au_lock"
  /\ users' = {IF u.id = auth_req[p].user
                 THEN [u EXCEPT !.locked_until = {now + LOCKOUT_DURATION}]
                 ELSE u : u \in users}
  /\ AuthEnd(p, Err("Invalid email or password"), NoUser)
  /\ failed_calls' = FailedCallOf(p)
  /\ UNCHANGED <<users_id_seq, now>>
  /\ UNCHANGED reset_vars
  /\ UNCHANGED session_vars
  /\ UNCHANGED notes_vars

\* a successful call that returns the user and leaves the row as it is
authenticateUser_reset_skipped(p) ==
  /\ auth_pc[p] = "au_reset"
  /\ AuthReturn("authenticateUser", auth_req[p].email, auth_req[p].password, NoError,
                auth_req[p].user)
  /\ auth_pc' = [auth_pc EXCEPT ![p] = "idle"]
  /\ auth_req' = [auth_req EXCEPT ![p] = NoAuthReq]
  /\ failed_calls' = [failed_calls EXCEPT ![auth_req[p].user] = 0]
  /\ UNCHANGED <<users, users_id_seq, now>>
  /\ UNCHANGED reset_vars
  /\ UNCHANGED session_vars
  /\ UNCHANGED notes_vars

\* UPDATE users SET failed_login_attempts = 0, locked_until = NULL,
\* last_login = CURRENT_TIMESTAMP WHERE id = $1; return sanitizeUser(user)
authenticateUser_reset(p) ==
  /\ auth_pc[p] = "au_reset"
  /\ users' = {IF u.id = auth_req[p].user
                 THEN [u EXCEPT !.failed_login_attempts = 0, !.locked_until = {}]
                 ELSE u : u \in users}
  /\ AuthReturn("authenticateUser", auth_req[p].email, auth_req[p].password, NoError,
                auth_req[p].user)
  /\ auth_pc' = [auth_pc EXCEPT ![p] = "idle"]
  /\ auth_req' = [q \in Procs |->
                    IF q = p THEN NoAuthReq
                    ELSE IF auth_req[q].op = "authenticateUser"
                            /\ auth_req[q].user = auth_req[p].user
                      THEN [auth_req[q] EXCEPT !.overlapped = TRUE]
                    ELSE auth_req[q]]
  /\ failed_calls' = [failed_calls EXCEPT ![auth_req[p].user] = 0]
  /\ UNCHANGED <<users_id_seq, now>>
  /\ UNCHANGED reset_vars
  /\ UNCHANGED session_vars
  /\ UNCHANGED notes_vars

\* a statement of a call fails in the store: pool.query throws, the call
\* throws the store's error
authStorageFailure(p) ==
  /\ auth_pc[p] # "idle"
  /\ AuthEnd(p, Err("store failure"), NoUser)
  /\ UNCHANGED <<users, users_id_seq, now, failed_calls>>
  /\ UNCHANGED reset_vars
  /\ UNCHANGED session_vars
  /\ UNCHANGED notes_vars

NextAuth ==
  \/ Tick
  \/ \E p \in Procs :
       \/ registerUser_check(p)
       \/ registerUser_insert(p)
       \/ registerUser_insert_throws(p)
       \/ authenticateUser_select(p)
       \/ authenticateUser_increment(p)
       \/ authenticateUser_lock(p)
       \/ authenticateUser_reset(p)
       \/ authStorageFailure(p)

SpecAuth == Init /\ [][NextAuth]_vars

\* one caller at a time, and a store that answers every statement
NextAuthSolo ==
  \/ Tick
  \/ \E p \in {1} :
       \/ registerUser_check(p)
       \/ registerUser_insert(p)
       \/ authenticateUser_select(p)
       \/ authenticateUser_increment(p)
       \/ authenticateUser_lock(p)
       \/ authenticateUser_reset(p)

SpecAuthSolo == Init /\ [][NextAuthSolo]_vars

\* ========================================================== password reset
\* the clock, in steps of the life of a reset token
Tick_expiry ==
  /\ now + PASSWORD_RESET_TOKEN_EXPIRY <= MaxHours * PASSWORD_RESET_TOKEN_EXPIRY
  /\ now' = now + PASSWORD_RESET_TOKEN_EXPIRY
  /\ AuthQuiet
  /\ UNCHANGED <<users, users_id_seq, auth_pc, auth_req, failed_calls>>
  /\ UNCHANGED reset_vars
  /\ UNCHANGED session_vars
  /\ UNCHANGED notes_vars

\* createPasswordResetToken: getUserByEmail, then
\* DELETE FROM password_reset_tokens WHERE user_id = $1 (its own statement)
createPasswordResetToken_delete(p) ==
  /\ auth_pc[p] = "idle"
  /\ password_reset_tokens_id_seq
       + Cardinality({q \in Others(p) : auth_pc[q] = "cprt_insert"}) < MaxTokens
  /\ \E email \in Emails :
       IF UsersByEmail(users, email) = {}
         THEN /\ AuthReturn("createPasswordResetToken", email, "",
                            Err("If the email exists, a reset link has been sent"), NoUser)
              /\ UNCHANGED <<auth_pc, auth_req, password_reset_tokens>>
         ELSE \E u \in UsersByEmail(users, email) :
              \* the DELETE waits for a row that an open resetPassword has updated
              /\ ~\E q \in Others(p), r \in password_reset_tokens :
                    auth_pc[q] = "rp_commit" /\ r.id = auth_req[q].token /\ r.user_id = u.id
              /\ password_reset_tokens' = {t \in password_reset_tokens : t.user_id # u.id}
              /\ auth_req' = [auth_req EXCEPT ![p] =
                    [NoAuthReq EXCEPT !.op = "createPasswordResetToken", !.email = email,
                                      !.user = u.id]]
              /\ auth_pc' = [auth_pc EXCEPT ![p] = "cprt_insert"]
              /\ AuthQuiet
  /\ UNCHANGED <<users, users_id_seq, now, failed_calls, password_reset_tokens_id_seq>>
  /\ UNCHANGED session_vars
  /\ UNCHANGED notes_vars

\* INSERT INTO password_reset_tokens (user_id, token, expires_at) with
\* expires_at = Date.now() + PASSWORD_RESET_TOKEN_EXPIRY; return token.  The
\* random token is identified with the row's serial id.
createPasswordResetToken_insert(p) ==
  /\ auth_pc[p] = "cprt_insert"
  /\ password_reset_tokens' = password_reset_tokens \cup
       {[id |-> password_reset_tokens_id_seq + 1, user_id |-> auth_req[p].user,
         expires_at |-> now + PASSWORD_RESET_TOKEN_EXPIRY, used_at |-> {}]}
  /\ password_reset_tokens_id_seq' = password_reset_tokens_id_seq + 1
  /\ AuthEnd(p, NoError, auth_req[p].user)
  /\ UNCHANGED <<users, users_id_seq, now, failed_calls>>
  /\ UNCHANGED session_vars
  /\ UNCHANGED notes_vars

\* SELECT * FROM password_reset_tokens WHERE token = $1
\*   AND expires_at > CURRENT_TIMESTAMP AND used_at IS NULL
ValidTokens(T, token, t) ==
  {r \in T : r.id = token /\ r.expires_at > t /\ r.used_at = {}}

\* resetPassword: the SELECT of the valid token and validatePassword, both
\* before the transaction
resetPassword_select(p) ==
  /\ auth_pc[p] = "idle"
  /\ \E token \in 1..MaxTokens, newPassword \in Passwords \cup {"short"} :
       IF ValidTokens(password_reset_tokens, token, now) = {}
         THEN /\ AuthReturn("resetPassword", "", newPassword,
                            Err("Invalid or expired reset token"), NoUser)
              /\ UNCHANGED <<auth_pc, auth_req>>
       ELSE IF validatePassword(newPassword) # NoError
         THEN /\ AuthReturn("resetPassword", "", newPassword,
                            validatePassword(newPassword), NoUser)
              /\ UNCHANGED <<auth_pc, auth_req>>
       ELSE \E r \in ValidTokens(password_reset_tokens, token, now) :
              /\ auth_req' = [auth_req EXCEPT ![p] =
                    [NoAuthReq EXCEPT !.op = "resetPassword", !.password = newPassword,
                                      !.user = r.user_id, !.token = r.id]]
              /\ auth_pc' = [auth_pc EXCEPT ![p] = "rp_updateUser"]
              /\ AuthQuiet
  /\ UNCHANGED <<users, users_id_seq, now, failed_calls>>
  /\ UNCHANGED reset_vars
  /\ UNCHANGED session_vars
  /\ UNCHANGED notes_vars

\* the users row is locked by the UPDATE of another open resetPassword
UserRowLocked(p, id) ==
  \E q \in Others(p) : auth_pc[q] \in {"rp_updateToken", "rp_commit"} /\ auth_req[q].user = id

\* BEGIN; UPDATE users SET password_hash = $1, failed_login_attempts = 0,
\* locked_until = NULL WHERE id = $2: waits for the row's lock; the write is
\* the transaction's until COMMIT
resetPassword_updateUser(p) ==
  /\ auth_pc[p] = "rp_updateUser"
  /\ ~UserRowLocked(p, auth_req[p].user)
  /\ auth_pc' = [auth_pc EXCEPT ![p] = "rp_updateToken"]
  /\ AuthQuiet
  /\ UNCHANGED <<users, users_id_seq, now, auth_req, failed_calls>>
  /\ UNCHANGED reset_vars
  /\ UNCHANGED session_vars
  /\ UNCHANGED notes_vars

\* UPDATE password_reset_tokens SET used_at = CURRENT_TIMESTAMP WHERE id = $1
resetPassword_updateToken(p) ==
  /\ auth_pc[p] = "rp_updateToken"
  /\ auth_pc' = [auth_pc EXCEPT ![p] = "rp_commit"]
  /\ AuthQuiet
  /\ UNCHANGED <<users, users_id_seq, now, auth_req, failed_calls>>
  /\ UNCHANGED reset_vars
  /\ UNCHANGED session_vars
  /\ UNCHANGED notes_vars

\* the two UPDATEs of the transaction, applied to the tables U and T
resetPassword_writes(U, T, id, token, password, t) ==
  <<{IF u.id = id
       THEN [u EXCEPT !.password_hash = hashPassword(password),
                      !.failed_login_attempts = 0, !.locked_until = {}]
       ELSE u : u \in U},
    {IF r.id = token THEN [r EXCEPT !.used_at = {t}] ELSE r : r \in T}>>

\* COMMIT: both writes become visible; the call returns
resetPassword_commit(p) ==
  /\ auth_pc[p] = "rp_commit"
  /\ LET writes == resetPassword_writes(users, password_reset_tokens, auth_req[p].user,
                                        auth_req[p].token, auth_req[p].password, now)
     IN /\ users' = writes[1]
        /\ password_reset_tokens' = writes[2]
  /\ AuthEnd(p, NoError, auth_req[p].user)
  /\ UNCHANGED <<users_id_seq, now, failed_calls, password_reset_tokens_id_seq>>
  /\ UNCHANGED session_vars
  /\ UNCHANGED notes_vars

NextReset ==
  \/ Tick_expiry
  \/ \E p \in Procs :
       \/ registerUser_check(p)
       \/ registerUser_insert(p)
       \/ registerUser_insert_throws(p)
       \/ createPasswordResetToken_delete(p)
       \/ createPasswordResetToken_insert(p)
       \/ resetPassword_select(p)
       \/ resetPassword_updateUser(p)
       \/ resetPassword_updateToken(p)
       \/ resetPassword_commit(p)
       \/ authStorageFailure(p)

SpecReset == Init /\ [][NextReset]_vars

\* ======================================================= updateUserProfile
\* the bodies of PUT /api/auth/profile: a field left out is ""
ProfileEmails == {"", "A@x.io", "b@x.io", "a.x.io"}
ProfileUsernames == {"", "ann", "bob", "an"}

\* updateUserProfile(userId, data), first block: if (data.email) validateEmail and
\* SELECT id FROM users WHERE email = lower(email) AND id != userId
updateUserProfile_checkEmail(p) ==
  /\ auth_pc[p] = "idle"
  /\ \E u \in users, email \in ProfileEmails, username \in ProfileUsernames :
       LET error == IF email = "" THEN NoError
                    ELSE IF ~validateEmail(email) THEN Err("Invalid email format")
                    ELSE IF \E v \in UsersByEmail(users, email) : v.id # u.id
                      THEN Err("Email already taken")
                    ELSE NoError
       IN
       IF error # NoError
         THEN /\ AuthReturn("updateUserProfile", email, "", error, NoUser)
              /\ UNCHANGED <<auth_pc, auth_req>>
         ELSE /\ auth_req' = [auth_req EXCEPT ![p] =
                    [NoAuthReq EXCEPT !.op = "updateUserProfile", !.email = email,
                                      !.username = username, !.user = u.id]]
              /\ auth_pc' = [auth_pc EXCEPT ![p] = "up_checkUsername"]
              /\ AuthQuiet
  /\ UNCHANGED <<users, users_id_seq, now, failed_calls>>
  /\ UNCHANGED reset_vars
  /\ UNCHANGED session_vars
  /\ UNCHANGED notes_vars

\* second block: if (data.username) validateUsername and
\* SELECT id FROM users WHERE username = $1 AND id != userId;
\* then 'No updates provided' when neither field was given
updateUserProfile_checkUsername(p) ==
  /\ auth_pc[p] = "up_checkUsername"
  /\ LET username == auth_req[p].username
         error == IF username # "" /\ validateUsername(username) # NoError
                    THEN validateUsername(username)
                  ELSE IF username # ""
                          /\ \E v \in users : v.username = username /\ v.id # auth_req[p].user
                    THEN Err("Username already taken")
                  ELSE IF username = "" /\ auth_req[p].email = ""
                    THEN Err("No updates provided")
                  ELSE NoError
     IN
     IF error # NoError
       THEN AuthEnd(p, error, NoUser)
       ELSE /\ auth_pc' = [auth_pc EXCEPT ![p] = "up_update"]
            /\ AuthQuiet
            /\ UNCHANGED auth_req
  /\ UNCHANGED <<users, users_id_seq, now, failed_calls>>
  /\ UNCHANGED reset_vars
  /\ UNCHANGED session_vars
  /\ UNCHANGED notes_vars

\* the row of user id after UPDATE users SET email = lower(email), username = ...
\* with the fields that were given
updateUserProfile_row(u, email, username) ==
  [u EXCEPT !.email = IF email = "" THEN @ ELSE toLowerCase(email),
            !.username = IF username = "" THEN @ ELSE username]

\* a users table whose unique constraints the UPDATE does not meet
UserKeyTakenByOther_none(id, email, username) == FALSE

\* users.email and users.username are UNIQUE: the keys of the other rows
UserKeyTakenByOther(id, email, username) ==
  \E v \in users : v.id # id /\ (v.email = email \/ v.username = username)

\* UPDATE users SET ... WHERE id = $n RETURNING *; return sanitizeUser(row)
updateUserProfile_update(p) ==
  /\ auth_pc[p] = "up_update"
  /\ \E u \in users :
       /\ u.id = auth_req[p].user
       /\ LET row == updateUserProfile_row(u, auth_req[p].email, auth_req[p].username) IN
          /\ ~UserKeyTakenByOther(u.id, row.email, row.username)
          /\ users' = (users \ {u}) \cup {row}
  /\ AuthEnd(p, NoError, auth_req[p].user)
  /\ UNCHANGED <<users_id_seq, now, failed_calls>>
  /\ UNCHANGED reset_vars
  /\ UNCHANGED session_vars
  /\ UNCHANGED notes_vars

\* the UPDATE violates a unique constraint: it throws
updateUserProfile_update_throws(p) ==
  /\ auth_pc[p] = "up_update"
  /\ \E u \in users :
       /\ u.id = auth_req[p].user
       /\ LET row == updateUserProfile_row(u, auth_req[p].email, auth_req[p].username) IN
            UserKeyTakenByOther(u.id, row.email, row.username)
  /\ AuthEnd(p, Err("duplicate key value violates unique constraint"), NoUser)
  /\ UNCHANGED <<users, users_id_seq, now, failed_calls>>
  /\ UNCHANGED reset_vars
  /\ UNCHANGED session_vars
  /\ UNCHANGED notes_vars

NextProfile ==
  \E p \in Procs :
    \/ registerUser_check(p)
    \/ registerUser_insert(p)
    \/ registerUser_insert_throws(p)
    \/ updateUserProfile_checkEmail(p)
    \/ updateUserProfile_checkUsername(p)
    \/ updateUserProfile_update(p)
    \/ updateUserProfile_update_throws(p)
    \/ authStorageFailure(p)

SpecProfile == Init /\ [][NextProfile]_vars

\* ================================================================ sessions
\* express-session over PgSession (index.ts 44-62): resave false,
\* saveUninitialized false, rolling not set, cookie.maxAge SESSION_TIMEOUT.
\* A request is one step: the middleware loads the session of the sid the
\* request presents (0: no cookie), the route runs, and when the response ends
\* the session is saved if the route has changed it, and touched otherwise.

\* the clock, in steps of half the life of a session
Tick_session ==
  /\ now + SESSION_TIMEOUT \div 2 <= MaxHalfDays * (SESSION_TIMEOUT \div 2)
  /\ now' = now + SESSION_TIMEOUT \div 2
  /\ AuthQuiet
  /\ UNCHANGED <<users, users_id_seq, auth_pc, auth_req, failed_calls>>
  /\ UNCHANGED reset_vars
  /\ UNCHANGED session_vars
  /\ UNCHANGED notes_vars

\* store.get: SELECT sess FROM session WHERE sid = $1 AND expire >= now
LoadSession(sid) == {r \in pg_session : r.sid = sid /\ r.expire >= now}

\* the end of a response whose route has not changed the session:
\* req.session.touch() sets cookie.expires = now + maxAge and store.touch
\* writes it to the row's expire
TouchSession(sid) ==
  {IF r \in LoadSession(sid) THEN [r EXCEPT !.expire = now + SESSION_TIMEOUT] ELSE r
   : r \in pg_session}

\* the end of a response whose route has set req.session.userId: store.set
\* writes the session, under the sid presented when that session was loaded
\* and under a fresh sid otherwise
SaveSession(sid, userId) ==
  IF LoadSession(sid) # {}
    THEN {IF r \in LoadSession(sid)
            THEN [r EXCEPT !.userId = userId, !.expire = now + SESSION_TIMEOUT,
                           !.created = now]
            ELSE r : r \in pg_session}
    ELSE pg_session \cup {[sid |-> session_id_seq + 1, userId |-> userId,
                           expire |-> now + SESSION_TIMEOUT, created |-> now]}

\* POST /api/auth/register: registerUser, then req.session.userId = user.id
register_route ==
  /\ \E sid \in 0..session_id_seq, email \in Emails, username \in Usernames,
        password \in Passwords :
       LET error == registerUser_error(users, email, username, password) IN
       /\ AuthReturn("register", email, "", error,
                     IF error = NoError THEN users_id_seq + 1 ELSE NoUser)
       /\ IF error = NoError
            THEN /\ users_id_seq < MaxUserIds
                 /\ LoadSession(sid) = {} => session_id_seq < MaxSessions
                 /\ users' = users \cup
                      {[id |-> users_id_seq + 1, email |-> toLowerCase(email),
                        username |-> username, password_hash |-> hashPassword(password),
                        is_active |-> TRUE, failed_login_attempts |-> 0, locked_until |-> {}]}
                 /\ users_id_seq' = users_id_seq + 1
                 /\ pg_session' = SaveSession(sid, users_id_seq + 1)
                 /\ session_id_seq' = IF LoadSession(sid) = {} THEN session_id_seq + 1
                                      ELSE session_id_seq
            ELSE /\ pg_session' = TouchSession(sid)
                 /\ UNCHANGED <<users, users_id_seq, session_id_seq>>
  /\ UNCHANGED <<now, auth_pc, auth_req, failed_calls>>
  /\ UNCHANGED reset_vars
  /\ UNCHANGED notes_vars

\* POST /api/auth/login: authenticateUser (the counter, the lock and the reset
\* it writes), then req.session.userId = user.id
login_route ==
  /\ \E sid \in 0..session_id_seq, email \in Emails, password \in Passwords :
       LET error == authenticateUser_error(users, email, password, now)
           mismatch == PasswordMismatch(users, email, password, now)
       IN
       /\ \A u \in UsersByEmail(users, email) : u.failed_login_attempts < MaxAttempts
       /\ AuthReturn("login", email, password, error,
                     IF error = NoError THEN (CHOOSE u \in UsersByEmail(users, email) : TRUE).id
                     ELSE NoUser)
       /\ users' =
            {IF u \notin UsersByEmail(users, email) THEN u
             ELSE IF error = NoError
               THEN [u EXCEPT !.failed_login_attempts = 0, !.locked_until = {}]
             ELSE IF mismatch
               THEN [u EXCEPT !.failed_login_attempts = @ + 1,
                      !.locked_until =
                         IF incrementFailedLoginAttempts_locks(u.failed_login_attempts + 1)
                           THEN {now + LOCKOUT_DURATION} ELSE @]
             ELSE u : u \in users}
       /\ IF error = NoError
            THEN /\ LoadSession(sid) = {} => session_id_seq < MaxSessions
                 /\ pg_session' =
                      SaveSession(sid, (CHOOSE u \in UsersByEmail(users, email) : TRUE).id)
                 /\ session_id_seq' = IF LoadSession(sid) = {} THEN session_id_seq + 1
                                      ELSE session_id_seq
            ELSE /\ pg_session' = TouchSession(sid)
                 /\ UNCHANGED session_id_seq
  /\ UNCHANGED <<users_id_seq, now, auth_pc, auth_req, failed_calls>>
  /\ UNCHANGED reset_vars
  /\ UNCHANGED notes_vars

\* POST /api/auth/logout: requireAuth, then req.session.destroy (DELETE FROM
\* session WHERE sid = $1) and clearCookie
logout_route ==
  /\ \E sid \in 0..session_id_seq :
       IF LoadSession(sid) = {}
         THEN /\ AuthReturn("logout", "", "", Err("Authentication required"), NoUser)
              /\ UNCHANGED pg_session
         ELSE /\ AuthReturn("logout", "", "", NoError,
                            (CHOOSE r \in LoadSession(sid) : TRUE).userId)
              /\ pg_session' = pg_session \ LoadSession(sid)
  /\ UNCHANGED <<users, users_id_seq, now, auth_pc, auth_req, failed_calls, session_id_seq>>
  /\ UNCHANGED reset_vars
  /\ UNCHANGED notes_vars

\* GET /api/auth/me: requireAuth, then res.json({user: req.user}); the route
\* does not change the session
me_route ==
  /\ \E sid \in 0..session_id_seq :
       /\ IF LoadSession(sid) = {}
            THEN AuthReturn("me", "", "", Err("Authentication required"), NoUser)
            ELSE AuthReturn("me", "", "", NoError,
                            (CHOOSE r \in LoadSession(sid) : TRUE).userId)
       /\ pg_session' = TouchSession(sid)
  /\ UNCHANGED <<users, users_id_seq, now, auth_pc, auth_req, failed_calls, session_id_seq>>
  /\ UNCHANGED reset_vars
  /\ UNCHANGED notes_vars

\* DELETE /api/auth/account: requireAuth, then deleteUser(req.user.id) (DELETE
\* FROM users WHERE id = $1; password_reset_tokens.user_id cascades, the rows
\* notes.ts writes carry no user_id, table session has no column for the
\* user), then req.session.destroy and clearCookie
deleteAccount_route ==
  /\ \E sid \in 0..session_id_seq :
       IF LoadSession(sid) = {}
         THEN /\ AuthReturn("deleteAccount", "", "", Err("Authentication required"), NoUser)
              /\ UNCHANGED <<users, pg_session, password_reset_tokens>>
         ELSE LET userId == (CHOOSE r \in LoadSession(sid) : TRUE).userId IN
              /\ AuthReturn("deleteAccount", "", "", NoError, userId)
              /\ users' = {u \in users : u.id # userId}
              /\ password_reset_tokens' =
                   {r \in password_reset_tokens : r.user_id # userId}
              /\ pg_session' = pg_session \ LoadSession(sid)
  /\ UNCHANGED <<users_id_seq, now, auth_pc, auth_req, failed_calls, session_id_seq,
                 password_reset_tokens_id_seq>>
  /\ UNCHANGED notes_vars

NextSession ==
  \/ Tick_session
  \/ register_route
  \/ login_route
  \/ logout_route
  \/ me_route
  \/ deleteAccount_route

SpecSession == Init /\ [][NextSession]_vars

\* ========================================================== changePassword
\* what changePassword throws before its UPDATE: 'User not found', then the
\* comparePassword of the current password, then validatePassword of the new
changePassword_error(U, userId, currentPassword, newPassword) ==
  IF \A u \in U : u.id # userId THEN Err("User not found")
  ELSE IF ~comparePassword(currentPassword, (CHOOSE u \in U : u.id = userId).password_hash)
    THEN Err("Current password is incorrect")
  ELSE validatePassword(newPassword)

\* a changePassword that stores the new hash before it looks at the passwords
changePassword_select_writesFirst(p) ==
  /\ auth_pc[p] = "idle"
  /\ \E userId \in 1..MaxUserIds, currentPassword \in Passwords,
        newPassword \in Passwords \cup {"short"} :
       /\ users' = {IF u.id = userId THEN [u EXCEPT !.password_hash = hashPassword(newPassword)]
                    ELSE u : u \in users}
       /\ AuthReturn("changePassword", "", newPassword,
                     changePassword_error(users, userId, currentPassword, newPassword),
                     userId)
  /\ UNCHANGED <<users_id_seq, now, auth_pc, auth_req, failed_calls>>
  /\ UNCHANGED reset_vars
  /\ UNCHANGED session_vars
  /\ UNCHANGED notes_vars

\* SELECT * FROM users WHERE id = $1 and the checks that follow it
changePassword_select(p) ==
  /\ auth_pc[p] = "idle"
  /\ \E userId \in 1..MaxUserIds, currentPassword \in Passwords,
        newPassword \in Passwords \cup {"short"} :
       LET error == changePassword_error(users, userId, currentPassword, newPassword) IN
       IF error # NoError
         THEN /\ AuthReturn("changePassword", "", newPassword, error, userId)
              /\ UNCHANGED <<auth_pc, auth_req>>
         ELSE /\ auth_req' = [auth_req EXCEPT ![p] =
                    [NoAuthReq EXCEPT !.op = "changePassword", !.password = newPassword,
                                      !.user = userId]]
              /\ auth_pc' = [auth_pc EXCEPT ![p] = "cp_update"]
              /\ AuthQuiet
  /\ UNCHANGED <<users, users_id_seq, now, failed_calls>>
  /\ UNCHANGED reset_vars
  /\ UNCHANGED session_vars
  /\ UNCHANGED notes_vars

\* UPDATE users SET password_hash = $1 WHERE id = $2: waits for the row's lock
changePassword_update(p) ==
  /\ auth_pc[p] = "cp_update"
  /\ ~UserRowLocked(p, auth_req[p].user)
  /\ users' = {IF u.id = auth_req[p].user
                 THEN [u EXCEPT !.password_hash = hashPassword(auth_req[p].password)]
                 ELSE u : u \in users}
  /\ AuthEnd(p, NoError, auth_req[p].user)
  /\ UNCHANGED <<users_id_seq, now, failed_calls>>
  /\ UNCHANGED reset_vars
  /\ UNCHANGED session_vars
  /\ UNCHANGED notes_vars

\* the calls that set or change a password, two callers
NextPassword ==
  \/ Tick_expiry
  \/ \E p \in Procs :
       \/ registerUser_check(p)
       \/ registerUser_insert(p)
       \/ registerUser_insert_throws(p)
       \/ changePassword_select(p)
       \/ changePassword_update(p)
       \/ createPasswordResetToken_delete(p)
       \/ createPasswordResetToken_insert(p)
       \/ resetPassword_select(p)
       \/ resetPassword_updateUser(p)
       \/ resetPassword_updateToken(p)
       \/ resetPassword_commit(p)
       \/ authStorageFailure(p)

SpecPassword == Init /\ [][NextPassword]_vars

\* ============================================== the transactions, one caller
\* one caller of the four operations that run several statements between
\* BEGIN and COMMIT, and of the calls that set them up
NextAtomic ==
  \E p \in {1} :
    \/ createNote_insertNote(p)
    \/ createNote_insertVersion(p)
    \/ createNote_commit(p)
    \/ updateNote_begin(p)
    \/ updateNote_updateNote(p)
    \/ updateNote_insertVersion(p)
    \/ updateNote_deleteLinks(p)
    \/ updateNote_addTag(p)
    \/ updateNote_addTag_throws(p)
    \/ updateNote_commit(p)
    \/ addTagToNote_begin(p)
    \/ addTagToNote_addTag(p)
    \/ addTagToNote_addTag_throws(p)
    \/ addTagToNote_commit(p)
    \/ ReturnNote(p)
    \/ ReturnNote_throws(p)
    \/ StorageFailure(p)
    \/ registerUser_check(p)
    \/ registerUser_insert(p)
    \/ createPasswordResetToken_delete(p)
    \/ createPasswordResetToken_insert(p)
    \/ resetPassword_select(p)
    \/ resetPassword_updateUser(p)
    \/ resetPassword_updateToken(p)
    \/ resetPassword_commit(p)
    \/ authStorageFailure(p)

SpecAtomic == Init /\ [][NextAtomic]_vars

\* notes created at the times of a clock, deleted and listed
NextList ==
  \/ Tick
  \/ \E p \in {Solo} :
       \/ createNote_insertNote(p)
       \/ createNote_insertVersion(p)
       \/ createNote_commit(p)
       \/ deleteNote(p)
       \/ getNotes_route(p)

SpecList == Init /\ [][NextList]_vars

\* ================================================================ properties
\* the step is the COMMIT of an updateNote of process p
updateNote_commits(p) == pc[p] = "un_commit" /\ pc'[p] = "return"

\* the tags of the snapshot of a version
version_tags(T, id, version) == {vt.tag : vt \in {x \in T : x.note_id = id /\ x.version = version}}

\* C1: in every state every committed note has its version 1 (the two rows of
\* createNote become visible in one step), and every version row's note exists.
C1_NoteHasVersion ==
  /\ \A n \in notes : \E v \in note_versions : v.note_id = n.id /\ v.version = 1
  /\ \A v \in note_versions : NoteRows(v.note_id) # {}

\* a createNote has just committed its note
C1_Witness ==
  /\ resp.op = "createNote" /\ resp.status = 201
  /\ \E n \in notes : n.id = resp.id /\ VersionNumbers(n.id) = {1}

\* C2: under every interleaving of the handlers, a note's version numbers are
\* exactly 1 .. (number of its version rows): no gap and no duplicate.
C2_GaplessVersions ==
  \A id \in 1..MaxNotes : VersionNumbers(id) = 1..Cardinality(VersionsOf(id))

\* two updateNote calls have read the same maximum and one has committed: the
\* other is about to insert the version number that is taken
C2_Witness ==
  \E p \in Procs :
    /\ pc[p] = "un_insertVersion"
    /\ VersionKeyTaken(req[p].id, tx[p].newVersion)
    /\ VersionNumbers(req[p].id) = 1..2

\* C3 (as claimed): a note a response carries was created by the user of the
\* session the request came with.
C3_ReadsOwnNotesOnly ==
  \A n \in resp.body : n.created_by = resp.user

\* C4: a request without a session user is answered 401 and nothing else, that
\* step leaves the store alone, and no handler runs for it.
C4_Gate ==
  [][/\ \A p \in Procs : pc'[p] # "idle" => req'[p].user \in Users
     /\ (resp'.status # 0 /\ resp'.user = NoUser) => (resp'.status = 401 /\ UNCHANGED store)
     /\ (resp'.status \notin {0, 401}) => resp'.user \in Users]_vars

\* a request without a session has been rejected while a note is stored
C4_Witness == resp.status = 401 /\ resp.user = NoUser /\ notes # {}

\* C5 (as claimed): the tag snapshot of the version an updateNote commits is
\* the note's live tag set at the moment the call began.
C5_SnapshotIsLiveAtCall ==
  [][\A p \in Procs :
       (updateNote_commits(p) /\ tx[p].insVers # {}) =>
          version_tags(note_version_tags', req[p].id, tx[p].newVersion) = tx[p].liveAtCall]_vars

\* C5 (amended): the tag snapshot of the version an updateNote commits is the
\* note's committed live tag set at the moment the call inserts the version,
\* whatever the call then does to the live tags; it is never data.tags.
C5_SnapshotIsLiveAtCopy ==
  [][\A p \in Procs :
       /\ (pc[p] = "un_insertVersion" /\ tx'[p].insVers # {}) =>
            version_tags(tx'[p].insVTags, req[p].id, tx[p].newVersion)
              = {l.tag : l \in LinksOf(req[p].id)}
       /\ (updateNote_commits(p) /\ tx[p].insVers # {}) =>
            version_tags(note_version_tags', req[p].id, tx[p].newVersion)
              = version_tags(tx[p].insVTags, req[p].id, tx[p].newVersion)]_vars

\* an updateNote that creates a version and replaces the live tags is about to
\* commit: the snapshot holds the tag the call has removed from the live set
C5_Witness ==
  \E p \in Procs :
    /\ pc[p] = "un_commit"
    /\ tx[p].insVers # {} /\ req[p].tagsGiven
    /\ tx[p].insVTags # {} /\ tx[p].delLinks # {} /\ tx[p].insLinks = {}

\* C6 (as claimed): an updateNote whose content is the note's current content
\* commits no new version.
C6_NoOpEditCreatesNoVersion ==
  [][\A p \in Procs :
       (updateNote_commits(p) /\ \E n \in NoteRows(req[p].id) : n.content = req[p].content) =>
          VersionsOf(req[p].id)' = VersionsOf(req[p].id)]_vars

\* C7: a version row is never changed, and it is removed only together with
\* its note: every version row of a state is still there, with its number and
\* content, after any step that leaves its note in the table.
C7_VersionsImmutable ==
  [][\A v \in note_versions : (\E n \in notes' : n.id = v.note_id) => v \in note_versions']_vars

\* a note with two versions has gone through a later operation on it
C7_Witness ==
  /\ resp.op \in {"addTagToNote", "removeTagFromNote"} /\ resp.status = 200
  /\ VersionNumbers(resp.id) = 1..2

\* C8: no step a process takes for an addTagToNote or removeTagFromNote call
\* changes a note, a version row or a version's tag links.
C8_TagOpsLeaveVersionsAlone ==
  [][\A p \in Procs :
       (<<pc[p], req[p], tx[p]>> # <<pc'[p], req'[p], tx'[p]>>
        /\ (req[p].op \in {"addTagToNote", "removeTagFromNote"}
                     \/ req'[p].op \in {"addTagToNote", "removeTagFromNote"})) =>
          UNCHANGED <<notes, note_versions, note_version_tags>>]_vars

\* an addTagToNote has linked a tag to a note that has versions
C8_Witness ==
  /\ resp.op = "addTagToNote" /\ resp.status = 200
  /\ \E n \in resp.body : n.tags # {} /\ VersionsOf(n.id) # {}

\* the account of row u is locked at time t
Locked(u, t) == \E l \in u.locked_until : l > t

AccountStates(u) == {[u EXCEPT !.is_active = a] : a \in BOOLEAN}

resetPassword_commits(p) == auth_pc[p] = "rp_commit" /\ auth_pc'[p] = "idle" /\ auth_resp'.error = NoError

\* C11 (as claimed): a resetPassword call succeeds only if, at the moment its
\* changes are applied, its token exists, is not expired and is not marked
\* used (so that one token changes a password at most once).
C11_TokenValidWhenApplied ==
  [][\A p \in Procs :
       resetPassword_commits(p) =>
          ValidTokens(password_reset_tokens, auth_req[p].token, now) # {}]_vars

\* the step is the COMMIT of an addTagToNote of client p
addTagToNote_commits(p) == pc[p] = "at_commit" /\ pc'[p] = "return"

\* C12 (as claimed): when a user adds a tag to a note of their own, the tag row
\* the note is linked to afterwards is a row of that user (one row per owner
\* and name).
C12_TagRowPerOwner ==
  [][\A p \in Clients :
       (addTagToNote_commits(p) /\ \E n \in NoteRows(req[p].id) : n.created_by = req[p].user) =>
          \E t \in tags' : t.name = toLowerCase(req[p].tags[1]) /\ t.created_by = req[p].user]_vars

\* C13: no user has two tag rows whose names are equal ignoring case, every
\* stored name is lowercase, and every link of a note resolves to exactly one
\* tag row, so that 'Work' and 'work' link to the same row.
C13_TagNamesUniqueLowercase ==
  /\ \A t \in tags : t.name = toLowerCase(t.name)
  /\ \A t, u \in tags :
       (t.created_by = u.created_by /\ toLowerCase(t.name) = toLowerCase(u.name)) => t = u
  /\ \A l \in note_tags : Cardinality({t \in tags : t.name = l.tag}) = 1

\* an addTagToNote of 'Work' is about to commit a link to the row 'work' that
\* was there before the call
C13_Witness ==
  \E p \in Procs :
    /\ pc[p] = "at_commit" /\ req[p].tags = <<"Work">>
    /\ tx[p].insTags = {} /\ tx[p].insLinks = {Link(req[p].id, "work")}
    /\ \E t \in tags : t.name = "work"

\* C14: the step of a deleteNote that succeeds leaves no version row, live tag
\* link or version tag link of the note, leaves the tags and the rows of the
\* other notes as they were, and no row ever refers to a note that is not there.
C14_DeleteLeavesNoOrphans ==
  /\ [](\A id \in 1..MaxNotesSolo :
         NoteRows(id) = {} =>
            /\ VersionsOf(id) = {} /\ LinksOf(id) = {}
            /\ \A vt \in note_version_tags : vt.note_id # id)
  /\ [][(resp'.op = "deleteNote" /\ resp'.status = 204) =>
          /\ \A vt \in note_version_tags' : vt.note_id # resp'.id
          /\ \A v \in note_versions' : v.note_id # resp'.id
          /\ \A l \in note_tags' : l.note_id # resp'.id
          /\ tags' = tags
          /\ \A id \in 1..MaxNotesSolo \ {resp'.id} :
               /\ NoteRows(id)' = NoteRows(id)
               /\ VersionsOf(id)' = VersionsOf(id)
               /\ LinksOf(id)' = LinksOf(id)
               /\ {vt \in note_version_tags' : vt.note_id = id}
                    = {vt \in note_version_tags : vt.note_id = id}]_vars

\* a note has just been deleted while the other note, with a second version
\* that has a tag snapshot, and its live tag are in the store
C14_Witness ==
  /\ resp.op = "deleteNote" /\ resp.status = 204
  /\ \E n \in notes :
       /\ n.id # resp.id
       /\ VersionNumbers(n.id) = 1..2
       /\ LinksOf(n.id) # {}
       /\ \E vt \in note_version_tags : vt.note_id = n.id

\* C15 (as claimed): an updateNote on a note id that is not in the store is
\* answered 404 whatever its body (unless the store fails), and the store is
\* as it was.
C15_UpdateMissingNoteNotFound ==
  [][(resp'.op = "updateNote" /\ resp'.status # 0 /\ resp'.error # "store failure"
        /\ NoteRows(resp'.id) = {}) =>
        (resp'.status = 404 /\ UNCHANGED store)]_vars

C17_SessionLifecycle ==
  /\ [][/\ (\E r \in pg_session' : \A q \in pg_session : q.sid # r.sid) =>
            (auth_resp'.op \in {"register", "login"} /\ auth_resp'.error = NoError)
        /\ (auth_resp'.op = "logout" /\ auth_resp'.error = NoError) =>
            (\E r \in pg_session : r \notin pg_session' /\ \A q \in pg_session' : q.sid # r.sid)
        /\ \A r \in pg_session' : (\A q \in pg_session : q.sid # r.sid) =>
              r.sid > session_id_seq]_vars
  /\ [](\A r \in pg_session : r.expire = r.created + SESSION_TIMEOUT)

\* C18: the answer of getNotes to a request with a tag filter is made of notes
\* that now carry at least one of the named tags in their live tag set, each
\* note once, in number the page limit/offset cuts out of them; a page that
\* has room for them all (offset 0, limit not below their number: the default
\* limit of 100 here) holds exactly those notes. The snapshots in
\* note_version_tags play no part.
C18_TagFilterIsLiveOr ==
  (resp.op = "getNotes" /\ resp.filter.tags # {}) =>
    LET carrying == {n.id : n \in {m \in notes : \E l \in note_tags :
                                       l.note_id = m.id /\ l.tag \in resp.filter.tags}}
        room == IF Cardinality(carrying) > resp.filter.offset
                  THEN Cardinality(carrying) - resp.filter.offset ELSE 0
    IN /\ \A i \in 1..Len(resp.rows) : resp.rows[i].id \in carrying
       /\ \A i, j \in 1..Len(resp.rows) : resp.rows[i].id = resp.rows[j].id => i = j
       /\ Len(resp.rows) = IF resp.filter.limit < room THEN resp.filter.limit ELSE room
       /\ (resp.filter.offset = 0 /\ resp.filter.limit >= Cardinality(carrying)) =>
            {resp.rows[i].id : i \in 1..Len(resp.rows)} = carrying

\* a filter of two names has answered with two notes, one carrying both names
\* and one carrying one of them, while a snapshot of a third kind exists: a
\* version of a returned note was taken with a named tag the note carries no
\* longer
C18_Witness ==
  /\ resp.op = "getNotes" /\ resp.filter.tags = {"work", "home"}
  /\ Len(resp.rows) = 2
  /\ \E i \in 1..2 : resp.rows[i].tags = {"work", "home"}
  /\ \E i \in 1..2 : Cardinality(resp.rows[i].tags) = 1
  /\ \E v \in note_version_tags, i \in 1..2 :
       /\ v.note_id = resp.rows[i].id
       /\ v.tag \in resp.filter.tags
       /\ v.tag \notin resp.rows[i].tags

\* C19 (as claimed): a call of createNote, updateNote, addTagToNote or
\* resetPassword that reports failure has made none of its writes visible,
\* neither in the step that reports nor in a step before it (no COMMIT of
\* the call has changed a table); a table changes for such a call in its COMMIT step
\* alone, and after that step every write of the call is in the tables.
C19_AllOrNothing ==
  [][\A p \in Procs :
       /\ (pc[p] # "idle" /\ pc'[p] = "idle" /\ resp'.status = 500) =>
            (Tables' = Tables /\ ~tx[p].committed)
       /\ (pc[p] # "idle" /\ Tables' # Tables) =>
            /\ pc[p] \in {"cn_insertVersion", "un_commit", "at_commit"}
            /\ tx[p].insNotes \subseteq notes'
            /\ \A u \in tx[p].updNotes : \E n \in notes' : n.id = u.id /\ n.content = u.content
            /\ tx[p].insVers \subseteq note_versions'
            /\ tx[p].insVTags \subseteq note_version_tags'
            /\ tx[p].insTags \subseteq tags'
            /\ tx[p].insLinks \subseteq note_tags'
            /\ (tx[p].delLinks \ tx[p].insLinks) \cap note_tags' = {}
       /\ (auth_req[p].op = "resetPassword" /\ auth_pc'[p] = "idle") =>
            IF auth_resp'.error = NoError
              THEN /\ \E u \in users' : /\ u.id = auth_req[p].user
                                        /\ u.password_hash = hashPassword(auth_req[p].password)
                   /\ \E r \in password_reset_tokens' :
                        r.id = auth_req[p].token /\ r.used_at # {}
              ELSE users' = users /\ password_reset_tokens' = password_reset_tokens
       /\ (auth_req[p].op = "resetPassword" /\ auth_pc'[p] # "idle") =>
            (users' = users /\ password_reset_tokens' = password_reset_tokens)]_vars

\* C20 (as claimed): no state shows an account whose failed_login_attempts has
\* reached MAX_LOGIN_ATTEMPTS while its locked_until is not set, and while a
\* call stands between the increment that reached the threshold and its lock,
\* no other authenticateUser call for that account takes a step.
C20_IncrementAndLockAtomic ==
  /\ [](\A u \in users :
          u.failed_login_attempts >= MAX_LOGIN_ATTEMPTS => u.locked_until # {})
  /\ [][\A p \in Procs : \A q \in Others(p) :
          (auth_pc[p] = "au_lock" /\ auth_pc'[q] # auth_pc[q]) =>
            /\ ~(auth_req[q].op = "authenticateUser" /\ auth_req[q].user = auth_req[p].user)
            /\ ~(auth_req'[q].op = "authenticateUser" /\ auth_req'[q].user = auth_req[p].user)]_vars

C22_OneLiveTokenPerUser ==
  /\ [](\A u \in users :
          Cardinality({r \in password_reset_tokens :
                         r.user_id = u.id /\ r.expires_at > now /\ r.used_at = {}}) <= 1)
  /\ [][\A p \in Procs :
          resetPassword_commits(p) =>
            \A r \in password_reset_tokens :
               r.user_id = auth_req[p].user => r.id <= auth_req[p].token]_vars

C24_ContentMirrorsLatestVersion ==
  /\ \A n \in notes :
       VersionsOf(n.id) # {} =>
         \A v \in VersionsOf(n.id) : v.version = max_version(n.id) => v.content = n.content
  /\ \A r \in resp.body :
       resp.status \in {200, 201} =>
         /\ VersionsOf(r.id) # {}
         /\ r.current_version = max_version(r.id)
         /\ \A n \in NoteRows(r.id) : r.content = n.content

\* of two updateNote calls that took the same version number for one note, one
\* has committed its version and the other has just been refused
C24_Witness ==
  /\ resp.op = "updateNote" /\ resp.error = "violates constraint"
  /\ NoteRows(resp.id) # {}
  /\ max_version(resp.id) = MaxVersion

\* C25 (as claimed): the order of getNotes is total, so that on unchanged
\* tables the same request is answered with the same rows in the same order,
\* and the page that follows a page (same filters and limit, offset further by
\* limit) holds none of the notes of the page before it.
C25_PagesPartitionTheNotes ==
  [][(/\ resp.op = "getNotes" /\ resp'.op = "getNotes"
       /\ Tables' = Tables
       /\ resp'.filter.tags = resp.filter.tags
       /\ resp'.filter.limit = resp.filter.limit) =>
        /\ resp'.filter.offset = resp.filter.offset => resp'.rows = resp.rows
        /\ resp'.filter.offset = resp.filter.offset + resp.filter.limit =>
             {resp.rows[i].id : i \in 1..Len(resp.rows)}
               \cap {resp'.rows[i].id : i \in 1..Len(resp'.rows)} = {}]_vars

\* C26: the step in which registerUser, changePassword or resetPassword throws
\* for a rule (a weak password, an invalid or taken email or username, a wrong
\* current password, an invalid token) leaves users and password_reset_tokens
\* as they are, the call has written nothing in a step before it, and after a
\* resetPassword refused for a weak password a token is still consumable.
C26_RuleFailureWritesNothing ==
  [][(/\ auth_resp'.op \in {"registerUser", "changePassword", "resetPassword"}
       /\ auth_resp'.error # NoError
       /\ auth_resp'.error # Err("store failure")) =>
        /\ users' = users
        /\ password_reset_tokens' = password_reset_tokens
        /\ \A p \in Procs : auth_pc'[p] # auth_pc[p] => auth_pc[p] = "ru_insert"
        /\ (auth_resp'.op = "resetPassword"
              /\ auth_resp'.error = validatePassword(auth_resp'.password)) =>
             \E r \in password_reset_tokens' : r.expires_at > now' /\ r.used_at = {}]_vars

\* a resetPassword with a token that can be consumed has just been refused for
\* its weak password
C26_Witness ==
  /\ auth_resp.op = "resetPassword"
  /\ auth_resp.password = "short"
  /\ auth_resp.error = validatePassword("short")
  /\ \E r \in password_reset_tokens : r.expires_at > now /\ r.used_at = {}

\* C27: no step of an updateNote call whose data has content and no tags field
\* changes a live tag link or a tag row, and the version tag links it writes
\* are those of the version it creates.
C27_ContentOnlyKeepsLiveTags ==
  [][\A p \in Procs :
       (req[p].op = "updateNote" /\ req[p].content # Undefined /\ ~req[p].tagsGiven
          /\ pc'[p] # pc[p]) =>
          /\ note_tags' = note_tags
          /\ tags' = tags
          /\ \A vt \in note_version_tags' \ note_version_tags :
               vt.note_id = req[p].id /\ vt.version = tx[p].newVersion]_vars

\* an updateNote with content and no tags field is about to commit a version
\* of a note that has live tags
C27_Witness ==
  \E p \in Procs :
    /\ pc[p] = "un_commit" /\ req[p].op = "updateNote"
    /\ ~req[p].tagsGiven /\ tx[p].insVers # {} /\ tx[p].insVTags # {}
    /\ LinksOf(req[p].id) # {}

\* C28 (as claimed): in every state an account whose locked_until lies in the
\* future has failed_login_attempts at MAX_LOGIN_ATTEMPTS or above.
C28_LockedImpliesCounterAtThreshold ==
  \A u \in users : Locked(u, now) => u.failed_login_attempts >= MAX_LOGIN_ATTEMPTS

\* C29: the failed-attempt counter of an account goes down only in the step
\* of a successful login, and the passing of time leaves the users table as
\* it is; an account that carries a lock, expired or not, has its counter at
\* MAX_LOGIN_ATTEMPTS or above; and every failed call that leaves the counter
\* at MAX_LOGIN_ATTEMPTS or above has set locked_until to a full
\* LOCKOUT_DURATION from the time of its last statement, so that after an
\* expired lock one failure locks the account again.
C29_ExpiryKeepsCounter ==
  /\ [][/\ \A u \in users, v \in users' :
             (v.id = u.id /\ v.failed_login_attempts < u.failed_login_attempts) =>
                /\ auth_resp'.op = "authenticateUser"
                /\ auth_resp'.error = NoError
                /\ auth_resp'.user = u.id
        /\ now' # now => users' = users]_vars
  /\ [](\A u \in users :
          u.locked_until # {} => u.failed_login_attempts >= MAX_LOGIN_ATTEMPTS)
  /\ [][(auth_resp'.op = "authenticateUser"
           /\ auth_resp'.error = Err("Invalid email or password")) =>
          \A u \in UsersByEmail(users', auth_resp'.email) :
             u.failed_login_attempts >= MAX_LOGIN_ATTEMPTS =>
                u.locked_until = {now' + LOCKOUT_DURATION}]_vars

\* the lock of an account has run out, and the first failed call after it
\* has locked the account again for a full period
C29_Witness ==
  /\ auth_resp.op = "authenticateUser"
  /\ auth_resp.error = Err("Invalid email or password")
  /\ now >= LOCKOUT_DURATION
  /\ \E u \in UsersByEmail(users, auth_resp.email) :
       /\ u.failed_login_attempts = MAX_LOGIN_ATTEMPTS + 1
       /\ u.locked_until = {now + LOCKOUT_DURATION}

\* C30 (as claimed): every request that passes requireAuth presents a session
\* of a user that exists in users and is active when the request is made.
C30_AcceptedSessionHasLiveUser ==
  [][(auth_resp'.op \in {"logout", "me", "deleteAccount"} /\ auth_resp'.error = NoError) =>
       \E u \in users : u.id = auth_resp'.user /\ u.is_active]_vars

====
